---- MODULE Spec2Model ----
(***************************************************************************)
(* SpaceRace: the game client (src/client.js, class GameClient), its       *)
(* network layer (src/network.js, class NetworkManager) and the server     *)
(* relay (src/server.js).                                                  *)
(*                                                                         *)
(* JavaScript runs every callback to completion, so one action is one      *)
(* callback: a rendered frame (animate), a timer, a click, the arrival of  *)
(* a network message, the passing of time.                                 *)
(*                                                                         *)
(* Abstractions.                                                           *)
(*  - Asteroid objects are identities 1..MaxAsteroids.  An identity that   *)
(*    is in neither list is an object the program has no reference to; of  *)
(*    its fields only the flags are kept, and an allocation may hand the   *)
(*    identity out again.                                                  *)
(*  - The counts of the source (pool of 250, ceiling 350, growth by at     *)
(*    least 10, 4 spawns per frame, 25 asteroids at least, a first wave of *)
(*    10) are scaled down; the rules that use them are kept.               *)
(*  - Motion (position += velocity, client.js:4059) is the input of the    *)
(*    frame: which asteroid, if any, is within the collision threshold,    *)
(*    beyond maxDistance, beyond cleanupDistance in this frame.  Only the  *)
(*    positions of the asteroids spawned in a frame are kept, as distances *)
(*    from the player along the player's path.                             *)
(*  - Date.now() is the variable now, in milliseconds.  0 stands for a     *)
(*    field that was never written (undefined).                            *)
(*  - Distances travelled are whole units; a frame adds an input amount.   *)
(*  - Speeds are in 1/10000 of a unit per frame (baseSpeed 0.4 = 4000).    *)
(***************************************************************************)
EXTENDS Integers, Sequences, FiniteSets, TLC

VARIABLES
    client,        \* the clients: GameClient with its NetworkManager
    now,           \* Date.now()
    players,       \* server.js:128
    readyPlayers,  \* server.js:129
    gameStarted,   \* server.js:130
    conn,          \* the server's connections: open, the handler's playerId,
                   \* and the ids its joins have stored records under
    toClient,      \* messages on the way to each client
    toServer,      \* messages on the way from each client
    startup        \* startServer (server.js:276-300): where it is

net == <<players, readyPlayers, gameStarted, conn, toClient, toServer, startup>>
vars == <<client, now, net>>

(***************************************************************************)
(* Bounds of the model.                                                    *)
(***************************************************************************)
MaxAsteroids == 4       \* asteroid identities
poolSize == 1           \* client.js:324 (250 in the source)
maxPoolSize == 2        \* client.js:462 (350 in the source)
minExpansion == 2       \* client.js:466 (10 in the source)
spawnCap == 2           \* client.js:3041 (4 in the source)
minBaseCount == 0       \* client.js:3015 (25 in the source)
initialWave == 2        \* client.js:2499 (10 in the source)
MaxTicks == 1           \* how often the clock advances
WaveSize == 2           \* timeouts a wave pattern schedules (12 and more)
MaxQueue == 2           \* messages on the way in one direction of a connection
MaxReady == 3           \* 'ready' messages the relay counts
MaxDistance == 50       \* distance travelled is capped here
DistanceStep == 25      \* what a frame adds to the distance, when it adds
TickMs == 200           \* one step of the clock, in ms
StartMs == 100          \* Date.now() in the first state
MaxSpeedTicks == 3      \* how often the clock advances in a long cruise
MaxSpeedDistance == 325 \* distance travelled in a long cruise is capped here
MaxDifficultyTicks == 6 \* how often the clock advances between difficulty updates
MaxDifficultySteps == 30 \* this.distanceTraveled, in milestones of 300
MaxPids == 3            \* processes the lookup of startServer finds
MaxMotionTicks == 3     \* frames in which the motion of asteroids is followed
MaxRoot == 15000        \* the largest length, in hundredths

(***************************************************************************)
(* Constants of the program.                                               *)
(***************************************************************************)
damage == 10                     \* client.js:1392
collisionCooldown == 150         \* client.js:1389
minimumAsteroidSpacing == 60     \* client.js:327
initialHealth == 100             \* client.js:19
playerSpeed == 4                 \* client.js:60, 4008-4011 (0.4, in tenths)
difficultyUpdateInterval == 1000 \* client.js:318
initialPort == 3000              \* server.js:276
maxAttempts == 10                \* server.js:282
difficultyMilestone == 300       \* client.js:3280

Clients == {1, 2}
\* the client whose simulation is followed
Me == CHOOSE c \in Clients : \A d \in Clients : c <= d
AsteroidIds == 1..MaxAsteroids

Max(a, b) == IF a >= b THEN a ELSE b
Min(a, b) == IF a <= b THEN a ELSE b
Range(s) == {s[i] : i \in 1..Len(s)}
Abs(x) == IF x >= 0 THEN x ELSE -x

\* Array.prototype.indexOf: the first index holding x, 0 when absent
\* (JavaScript's -1).
IndexOf(s, x) ==
    IF \E i \in 1..Len(s) : s[i] = x
    THEN CHOOSE i \in 1..Len(s) : s[i] = x /\ \A j \in 1..(i - 1) : s[j] # x
    ELSE 0

\* Array.prototype.splice(i, 1) with a 1-based index; an index past the end
\* removes nothing.
Splice(s, i) ==
    IF i >= 1 /\ i <= Len(s)
    THEN SubSeq(s, 1, i - 1) \o SubSeq(s, i + 1, Len(s))
    ELSE s

EmergencyPos == 150    \* client.js:3951

\* Where spawnAsteroid may place an asteroid (client.js:669-747).
SpawnPositions == {400, 430}

\* One asteroid object (client.js:379-389, 1103-1112, 3961-3971).
NoAsteroid ==
    [active |-> FALSE, creationTime |-> 0, isEmergency |-> FALSE,
     isHunter |-> FALSE]

\* The log of the last call of getAsteroidFromPool in the current handler
\* (observation only): the branch taken; whether an asteroid was returned;
\* how often the active list holds it and its active flag at the return;
\* by how much the active list grew; and, for a recycled asteroid, whether
\* it had the smallest creationTime of the active list and whether it left
\* with creationTime = now.
NoAcquire ==
    [branch |-> "none", returned |-> FALSE, count |-> 0, active |-> FALSE,
     grown |-> 0, oldest |-> FALSE, stamped |-> FALSE]

(***************************************************************************)
(* The client: the fields of GameClient and of its NetworkManager that the *)
(* modelled handlers read or write (client.js:8-109, network.js:2-13).     *)
(***************************************************************************)
NewClient ==
    [ \* the asteroid pool; both lists are undefined until initAsteroidSystem
      poolInit |-> FALSE,
      asteroids |-> <<>>,
      inactiveAsteroids |-> <<>>,
      ast |-> [a \in AsteroidIds |-> NoAsteroid],
      difficultyLevel |-> 0,
      \* gameState and localPlayer
      isRunning |-> FALSE,
      health |-> initialHealth,
      eliminated |-> FALSE,
      lastCollisionTime |-> 0,
      distanceTraveled |-> 0,
      \* controls and progression
      baseSpeed |-> 4000,
      currentSpeedLevel |-> 0,
      lastSpeedIncreaseDistance |-> 0,
      gameStartTime |-> FALSE,     \* only ever tested for being set
      lastDistanceUpdateTime |-> 0,
      \* networking
      singlePlayerMode |-> FALSE,
      playerId |-> 0,
      hasMesh |-> FALSE,
      pos |-> 0,       \* position of the own mesh, along the player's path
      self |-> <<>>,   \* position in network.gameState.players[playerId],
                       \* <<>> without such a record
      joinBtn |-> TRUE,
      readyState |-> "open",
      waveConfig |-> <<>>,   \* this.waveConfig: never created (undefined)
      lastDifficultyUpdate |-> StartMs,   \* client.js:319
      motion |-> <<>>, \* position, velocity and targetingFactor of asteroids
                       \* whose motion is followed
      readyBtn |-> FALSE,
      singlePlayerBtn |-> TRUE,
      startTimer |-> FALSE,
      \* what the running handler returned, threw and sent
      ret |-> 0,
      thrown |-> FALSE,
      out |-> <<>>,
      \* observation only
      acq |-> NoAcquire,
      merged |-> <<>>,
      severalHits |-> FALSE,
      waveTimers |-> <<>>,
      hunterDraw |-> FALSE,
      spawnedAt |-> <<>>,
      eliminations |-> 0,
      gameOverSent |-> 0,
      overflow |-> FALSE ]

\* A session begins: the observation counters of the session start afresh.
BeginSession(g) == [g EXCEPT !.eliminations = 0, !.gameOverSent = 0]

\* The start of a handler.  An asteroid that nothing refers to any more is
\* kept, with its flags, in the state that follows the handler that dropped
\* it, and is forgotten when the next handler starts; the observations of
\* the previous handler are cleared.
Entered(g) ==
    [g EXCEPT !.ast = [a \in AsteroidIds |->
                         IF a \in Range(g.asteroids)
                            \/ a \in Range(g.inactiveAsteroids)
                         THEN @[a] ELSE NoAsteroid],
              !.acq = NoAcquire,
              !.merged = <<>>,
              !.severalHits = FALSE,
              !.spawnedAt = <<>>]

\* The end of a handler: what it returned, threw and sent does not outlive
\* it.
Handled(g) ==
    [g EXCEPT !.ret = 0, !.thrown = FALSE, !.out = <<>>,
              !.hunterDraw = FALSE,
              !.waveTimers = IF g.isRunning THEN @
                             ELSE [i \in DOMAIN @ |-> TRUE]]

\* The identities no list refers to, in ascending order.
RECURSIVE SetToSeq(_)
SetToSeq(S) ==
    IF S = {} THEN <<>>
    ELSE LET m == CHOOSE x \in S : \A y \in S : x <= y
         IN <<m>> \o SetToSeq(S \ {m})

FreeIds(g) ==
    SetToSeq(AsteroidIds \ (Range(g.asteroids) \cup Range(g.inactiveAsteroids)))

\* client.js:308-432.  A fresh pool of poolSize inactive asteroids, an empty
\* active list, difficulty level 1.  The objects of an earlier pool are
\* dropped with the lists that held them.
initAsteroidSystem(g) ==
    [g EXCEPT !.poolInit = TRUE,
              !.inactiveAsteroids = [i \in 1..poolSize |-> i],
              !.asteroids = <<>>,
              !.ast = [a \in AsteroidIds |-> NoAsteroid],
              !.difficultyLevel = 1,
              !.overflow = @ \/ poolSize > MaxAsteroids]

\* Array.prototype.sort with (a, b) => a.creationTime - b.creationTime
\* (client.js:565): a stable sort, here by insertion.
RECURSIVE InsertByCreationTime(_, _, _)
InsertByCreationTime(s, a, ast) ==
    IF s = <<>> THEN <<a>>
    ELSE IF ast[Head(s)].creationTime <= ast[a].creationTime
         THEN <<Head(s)>> \o InsertByCreationTime(Tail(s), a, ast)
         ELSE <<a>> \o s

RECURSIVE SortByCreationTime(_, _)
SortByCreationTime(s, ast) ==
    IF s = <<>> THEN <<>>
    ELSE InsertByCreationTime(
             SortByCreationTime(SubSeq(s, 1, Len(s) - 1), ast), s[Len(s)], ast)

\* The smallest creationTime in the active list (0 when the list is empty).
MinCreationTime(g) ==
    IF g.asteroids = <<>> THEN 0
    ELSE LET T == {g.ast[a].creationTime : a \in Range(g.asteroids)}
         IN CHOOSE t \in T : \A u \in T : t <= u

Occurrences(s, x) == Cardinality({i \in 1..Len(s) : s[i] = x})

\* What getAsteroidFromPool did, from the client before (g) and after (h).
AcquireLog(g, h, branch, a) ==
    [branch |-> branch, returned |-> a # 0,
     count |-> Occurrences(h.asteroids, a),
     active |-> a # 0 /\ h.ast[a].active,
     grown |-> Len(h.asteroids) - Len(g.asteroids),
     oldest |-> branch = "recycle"
                /\ g.ast[a].creationTime = MinCreationTime(g),
     stamped |-> branch = "recycle" /\ h.ast[a].creationTime = now]

\* The return of getAsteroidFromPool: the client h it leaves, with the
\* asteroid a returned and the call logged.
Acquired(g, h, branch, a) ==
    [h EXCEPT !.acq = AcquireLog(g, h, branch, a), !.ret = a]

\* client.js:445-458: reuse the last entry of the free list.
AcquireFree(g) ==
    LET n == Len(g.inactiveAsteroids)
        a == g.inactiveAsteroids[n]
    IN Acquired(g, [g EXCEPT !.inactiveAsteroids = SubSeq(@, 1, n - 1),
                             !.ast[a].active = TRUE,
                             !.asteroids = Append(@, a)],
                "free", a)

\* client.js:464-559: grow by max(minimum, 20% of the total); the first new
\* asteroid is activated and returned, the others join the free list.
AcquireGrow(g) ==
    LET total == Len(g.asteroids) + Len(g.inactiveAsteroids)
        expansionSize == Max(minExpansion, total \div 5)
        ids == FreeIds(g)
    IN IF Len(ids) < expansionSize
       THEN [g EXCEPT !.overflow = TRUE]
       ELSE LET a == ids[1]
                others == SubSeq(ids, 2, expansionSize)
            IN Acquired(g,
                   [g EXCEPT
                      !.ast = [x \in AsteroidIds |->
                                 IF x = a
                                 THEN [NoAsteroid EXCEPT !.active = TRUE,
                                                         !.creationTime = now]
                                 ELSE IF x \in Range(others) THEN NoAsteroid
                                 ELSE @[x]],
                      !.asteroids = Append(@, a),
                      !.inactiveAsteroids = @ \o others],
                   "grow", a)

\* Variant of AcquireRecycle: the list is not sorted and the newest entry,
\* the last one, is taken.
AcquireRecycleNewest(g) ==
    LET a == g.asteroids[Len(g.asteroids)]
    IN Acquired(g, [g EXCEPT !.ast[a].creationTime = now,
                             !.ast[a].active = TRUE],
                "recycle", a)

\* client.js:561-579: at the ceiling, recycle the oldest active asteroid.
AcquireRecycle(g) ==
    LET sorted == IF g.ast[g.asteroids[1]].creationTime # 0
                  THEN SortByCreationTime(g.asteroids, g.ast)
                  ELSE g.asteroids
        a == Head(sorted)
    IN Acquired(g, [g EXCEPT !.asteroids = Append(Tail(sorted), a),
                             !.ast[a].creationTime = now,
                             !.ast[a].active = TRUE],
                "recycle", a)

\* Variant of getAsteroidFromPool: no recycling, null at the ceiling.
getAsteroidFromPoolNoRecycle(g) ==
    IF Len(g.inactiveAsteroids) > 0 THEN AcquireFree(g)
    ELSE IF Len(g.asteroids) + Len(g.inactiveAsteroids) < maxPoolSize
         THEN AcquireGrow(g)
    ELSE Acquired(g, g, "null", 0)

\* client.js:435-584.  The asteroid returned is g'.ret, 0 for null.
getAsteroidFromPool(g) ==
    IF Len(g.inactiveAsteroids) > 0 THEN AcquireFree(g)
    ELSE IF Len(g.asteroids) + Len(g.inactiveAsteroids) < maxPoolSize
         THEN AcquireGrow(g)
    ELSE IF Len(g.asteroids) > 0 THEN AcquireRecycle(g)
    ELSE Acquired(g, g, "null", 0)

\* Variant of returnAsteroidToPool: the asteroid is not taken out of the
\* active list.
returnAsteroidToPoolNoSplice(g, a) ==
    IF a = 0 THEN g
    ELSE [g EXCEPT !.ast[a].active = FALSE,
                   !.ast[a].creationTime = 0,
                   !.inactiveAsteroids = Append(@, a)]

\* client.js:587-602.  The creationTime of an asteroid in the free list is
\* never read: spawnAsteroid writes it (client.js:757) when the asteroid
\* is used again; the model does not keep it.
returnAsteroidToPool(g, a) ==
    IF a = 0 THEN g
    ELSE [g EXCEPT !.asteroids = Splice(@, IndexOf(@, a)),
                   !.ast[a].active = FALSE,
                   !.ast[a].creationTime = 0,
                   !.inactiveAsteroids = Append(@, a)]

(***************************************************************************)
(* NetworkManager: what the client sends (network.js:126-166, 207-242).    *)
(* The messages a handler sends are collected in out.                      *)
(***************************************************************************)
LocalPlayerId == 0 - 1     \* 'local-player' (client.js:2446)

\* sendMessage without the test of the socket's state.
sendMessageAnyState(g, m) == [g EXCEPT !.out = Append(@, m)]

\* network.js:207-242: the message goes to the socket when the socket is
\* open; otherwise a warning is logged.  (singlePlayerMode is set by
\* startSinglePlayerMode alone, network.js:176, which has no caller.)
sendMessage(g, m) ==
    IF g.readyState = "open" THEN [g EXCEPT !.out = Append(@, m)] ELSE g

\* A message to the server: its type, and the health and position an
\* update carries.
ClientMessage(t, h, p) == [type |-> t, health |-> h, position |-> p]

joinLobby(g) == sendMessage(g, ClientMessage("join", 0, 0))
setReady(g) == sendMessage(g, ClientMessage("ready", 0, 0))
startGame(g) == sendMessage(g, ClientMessage("startGame", 0, 0))
updatePlayer(g) ==
    sendMessage(g, ClientMessage("updatePlayer", g.health, g.pos))
gameOver(g) ==
    [sendMessage(g, ClientMessage("gameOver", 0, 0))
        EXCEPT !.gameOverSent = @ + 1]

(***************************************************************************)
(* Spawning.                                                               *)
(***************************************************************************)
\* client.js:605-872, called with the position its random draws produce
\* (player position + direction * spawnDistance, client.js:669-747).  The
\* result is g'.ret: the asteroid, or 0 for undefined and null.
\* client.js:620-623: without a free list, the pool is created.
PoolIfMissing(g) == IF ~g.poolInit THEN initAsteroidSystem(g) ELSE g

\* client.js:632-636: with both lists empty, the pool is created anew.
PoolIfEmpty(g) ==
    IF Len(g.inactiveAsteroids) = 0 /\ Len(g.asteroids) = 0
    THEN initAsteroidSystem(g) ELSE g

\* client.js:639-872: what spawnAsteroid does with the asteroid g.ret that
\* getAsteroidFromPool returned, placing it at p.  g.hunterDraw is the
\* outcome of Math.random() < directTargetingChance (client.js:681-682) in
\* the running handler; isHunter is written in both branches
\* (client.js:765-768, 801-802).
PlaceAsteroid(g, p) ==
    IF g.overflow \/ g.ret = 0 THEN [g EXCEPT !.ret = 0]
    ELSE [g EXCEPT !.ast[g.ret].active = TRUE,
                   !.ast[g.ret].creationTime = now,
                   !.ast[g.ret].isHunter = g.hunterDraw,
                   !.asteroids = IF g.ret \in Range(@) THEN @
                                 ELSE Append(@, g.ret),
                   !.spawnedAt = Append(@, p)]

spawnAsteroid(g, p) ==
    IF ~g.isRunning THEN [g EXCEPT !.ret = 0]
    ELSE IF ~g.hasMesh THEN [g EXCEPT !.ret = 0]
    ELSE PlaceAsteroid(getAsteroidFromPool(PoolIfEmpty(PoolIfMissing(g))), p)

\* client.js:3924-3983: a new asteroid outside the pool, 150 ahead of the
\* player.
spawnEmergencyAsteroid(g) ==
    IF ~g.hasMesh THEN [g EXCEPT !.ret = 0]
    ELSE LET ids == FreeIds(g)
         IN IF ids = <<>> THEN [g EXCEPT !.overflow = TRUE]
            ELSE LET a == ids[1]
                 IN [g EXCEPT !.ast[a] = [active |-> TRUE,
                                          creationTime |-> now,
                                          isEmergency |-> TRUE,
                                          isHunter |-> FALSE],
                              !.asteroids = Append(@, a),
                              !.spawnedAt = Append(@, EmergencyPos),
                              !.ret = a]

\* client.js:1097-1195, the callback of a wave timeout: nothing unless the
\* game runs; else a new asteroid outside the pool, appended to the active
\* list.
spawnAsteroidAtPosition(g) ==
    IF ~g.isRunning THEN [g EXCEPT !.ret = 0]
    ELSE IF FreeIds(g) = <<>> THEN [g EXCEPT !.overflow = TRUE]
    ELSE [g EXCEPT !.ast[FreeIds(g)[1]] = [active |-> TRUE,
                                           creationTime |-> now,
                                           isEmergency |-> FALSE,
                                           isHunter |-> FALSE],
                   !.asteroids = Append(@, FreeIds(g)[1]),
                   !.ret = FreeIds(g)[1]]

\* client.js:940-983: one setTimeout per asteroid of the wall; the handles
\* are not kept.  A pending timeout is FALSE until a handler leaves the game
\* not running, TRUE from then on.
spawnWallPattern(g) ==
    [g EXCEPT !.waveTimers = @ \o [i \in 1..WaveSize |-> FALSE]]

\* client.js:875-937 with the pattern 'wall' ('tunnel' and 'spiral'
\* schedule spawnAsteroidAtPosition in the same way).
spawnAsteroidWave(g) ==
    IF ~g.isRunning THEN g
    ELSE IF ~g.hasMesh THEN g
    ELSE spawnWallPattern(g)

(***************************************************************************)
(* Collision, per-frame update, cleanup.                                   *)
(***************************************************************************)
\* client.js:1443-1453: the server is told the new health.
NotifyHealth(g) ==
    IF ~g.singlePlayerMode /\ g.hasMesh THEN updatePlayer(g) ELSE g

\* The server is told that the game is over (client.js:1464-1467).
NotifyGameOver(g) == IF ~g.singlePlayerMode THEN gameOver(g) ELSE g

\* client.js:1455-1492: at health 0 the game is over and the player is
\* eliminated.
Eliminate(g) ==
    IF g.health <= 0
    THEN NotifyGameOver([g EXCEPT !.isRunning = FALSE,
                                  !.eliminated = TRUE,
                                  !.eliminations = @ + 1])
    ELSE g

\* Variant of handleAsteroidCollision: at health 0 the game goes on.
handleAsteroidCollisionGoesOn(g, a) ==
    IF g.lastCollisionTime = 0 \/ now - g.lastCollisionTime > collisionCooldown
    THEN LET g0 == NotifyHealth(
                       [g EXCEPT !.health = Max(0, @ - damage),
                                 !.lastCollisionTime = now,
                                 !.asteroids = Splice(@, IndexOf(@, a))])
         IN IF g0.health <= 0
            THEN NotifyGameOver([g0 EXCEPT !.eliminations = @ + 1])
            ELSE g0
    ELSE g

\* Variant of handleAsteroidCollision: there is no cooldown.
handleAsteroidCollisionNoCooldown(g, a) ==
    Eliminate(NotifyHealth([g EXCEPT !.health = Max(0, @ - damage),
                                     !.lastCollisionTime = now,
                                     !.asteroids = Splice(@, IndexOf(@, a))]))

\* Variant of handleAsteroidCollision: the health is not held at 0.
handleAsteroidCollisionNoFloor(g, a) ==
    IF g.lastCollisionTime = 0 \/ now - g.lastCollisionTime > collisionCooldown
    THEN Eliminate(NotifyHealth([g EXCEPT !.health = @ - damage,
                                          !.lastCollisionTime = now,
                                          !.asteroids = Splice(@, IndexOf(@, a))]))
    ELSE g

\* client.js:1386-1494.  The asteroid is spliced out of the active list and
\* gets inactive = true; its active flag is not written and it is not given
\* back to the pool.
handleAsteroidCollision(g, a) ==
    IF g.lastCollisionTime = 0 \/ now - g.lastCollisionTime > collisionCooldown
    THEN Eliminate(NotifyHealth([g EXCEPT !.health = Max(0, @ - damage),
                                          !.lastCollisionTime = now,
                                          !.asteroids = Splice(@, IndexOf(@, a))]))
    ELSE g

\* The motion of a frame, as far as the program reads it: z.hit is the
\* asteroid within the collision threshold (client.js:4071-4074), z.out the
\* one beyond maxDistance (client.js:4077-4078), z.far the one beyond
\* cleanupDistance (client.js:1215, 1229); 0 for none.  z.hit2 is a second
\* asteroid within the collision threshold, farther from the player than
\* z.hit.  z.bad is an asteroid whose update throws (a fault: every asteroid
\* the program creates has what the loop reads).  What is beyond
\* maxDistance (2000 and more) is beyond cleanupDistance (700 and more).
NoMotion == [hit |-> 0, hit2 |-> 0, out |-> 0, far |-> 0, bad |-> 0]

\* The loop of updateAsteroids (client.js:4012-4084), from index i down to
\* 1; st is <<client, collisionResults>>.  The loop is not inside a try
\* block: an exception ends it.
RECURSIVE UpdateLoop(_, _, _)
UpdateLoop(st, i, z) ==
    IF i < 1 THEN st
    ELSE IF st[1].asteroids[i] = z.bad
    THEN <<[st[1] EXCEPT !.thrown = TRUE], st[2]>>
    ELSE LET g == st[1]
             a == g.asteroids[i]
             cands == IF a = z.hit \/ a = z.hit2 THEN Append(st[2], a)
                      ELSE st[2]
             g1 == IF a = z.out /\ ~g.ast[a].isEmergency
                   THEN LET r == returnAsteroidToPool(g, a)
                        IN [r EXCEPT !.asteroids = Splice(@, i)]
                   ELSE g
         IN UpdateLoop(<<g1, cands>>, i - 1, z)

\* The distance of a collision candidate from the player, as far as the
\* sort reads it: z.hit is nearer than z.hit2.
Distance(z, a) == IF a = z.hit THEN 1 ELSE 2

\* Array.prototype.sort with the comparator distA - distB
\* (client.js:4094-4098); the sort is stable.
RECURSIVE InsertByDistance(_, _, _)
InsertByDistance(s, a, z) ==
    IF s = <<>> THEN <<a>>
    ELSE IF Distance(z, a) - Distance(z, s[1]) < 0 THEN <<a>> \o s
    ELSE <<s[1]>> \o InsertByDistance(Tail(s), a, z)

RECURSIVE SortByDistance(_, _)
SortByDistance(s, z) ==
    IF s = <<>> THEN <<>>
    ELSE InsertByDistance(SortByDistance(SubSeq(s, 1, Len(s) - 1), z),
                          s[Len(s)], z)

\* Variant of HandleCollisions: the candidates are not sorted.
HandleCollisionsUnsorted(st, z) ==
    IF st[1].thrown THEN st[1]
    ELSE IF Len(st[2]) > 0
    THEN handleAsteroidCollision(
             [st[1] EXCEPT !.severalHits = Len(st[2]) > 1], st[2][1])
    ELSE st[1]

\* client.js:4091-4101: the candidates are sorted by distance and the first
\* one is handled; st is <<client, collisionResults>>.  severalHits tells
\* that there was more than one candidate.
HandleCollisions(st, z) ==
    IF st[1].thrown THEN st[1]
    ELSE IF Len(st[2]) > 0
    THEN handleAsteroidCollision(
             [st[1] EXCEPT !.severalHits = Len(st[2]) > 1],
             SortByDistance(st[2], z)[1])
    ELSE st[1]

\* client.js:3986-4102 (the later of the two definitions of the method is
\* the one the class keeps).
updateAsteroids(g, z) ==
    IF ~g.isRunning \/ ~g.hasMesh THEN g
    ELSE HandleCollisions(UpdateLoop(<<g, <<>>>>, Len(g.asteroids), z), z)

\* The loop of cleanupAsteroids (client.js:1221-1233).
RECURSIVE CleanupLoop(_, _, _)
CleanupLoop(g, i, z) ==
    IF i < 1 THEN g
    ELSE LET a == g.asteroids[i]
             g1 == IF a = z.far \/ a = z.out
                   THEN returnAsteroidToPool(g, a) ELSE g
         IN CleanupLoop(g1, i - 1, z)

\* client.js:1197-1239
cleanupAsteroids(g, z) ==
    IF ~g.hasMesh THEN g ELSE CleanupLoop(g, Len(g.asteroids), z)

(***************************************************************************)
(* Progression: distance, speed, difficulty.                               *)
(***************************************************************************)
\* client.js:3653-3681 (speedIncrease 15 display units = 0.15)
increaseSpeedFixed(g, newLevel) ==
    [g EXCEPT !.currentSpeedLevel = newLevel,
              !.baseSpeed = @ + 1500,
              !.difficultyLevel =
                  IF newLevel % 2 = 0 /\ @ < 10 THEN @ + 1 ELSE @]

\* client.js:3684-3765.  Below display speed 250 the method adds
\* 12 * max(0.8, 1 - 0.015 * newLevel) / 100 and then reads speedIncrease
\* outside the block that declares it (client.js:3758): a ReferenceError,
\* the rest of the frame is not run.  At 250 and above (which lies beyond
\* the distance bound of the model) it adds a capped increase and returns.
increaseSpeedWithDiminishingReturns(g, newLevel) ==
    IF g.baseSpeed < 25000
    THEN [g EXCEPT !.currentSpeedLevel = newLevel,
                   !.baseSpeed = @ + Max(960, 1200 - 18 * newLevel),
                   !.thrown = TRUE]
    ELSE [g EXCEPT !.currentSpeedLevel = newLevel]

\* client.js:3607-3650
updateSpeedBasedOnDistance(g) ==
    LET distance == g.distanceTraveled
        last == g.lastSpeedIncreaseDistance
        distanceMilestone == IF distance < 200 THEN 25 ELSE 100
        currentMilestone == distance \div distanceMilestone
        previousMilestone == last \div (IF last < 200 THEN 25 ELSE 100)
    IN IF currentMilestone > previousMilestone
       THEN LET g1 == [g EXCEPT !.lastSpeedIncreaseDistance =
                                     currentMilestone * distanceMilestone]
                newLevel == currentMilestone + 1
            IN IF distance < 200
               THEN increaseSpeedFixed(g1, newLevel)
               ELSE increaseSpeedWithDiminishingReturns(g1, newLevel)
       ELSE g

\* client.js:3909-3913: the time of the update is kept, unless the speed
\* update threw.
DistanceUpdated(g) ==
    IF g.thrown THEN g ELSE [g EXCEPT !.lastDistanceUpdateTime = now]

\* client.js:3878-3921; dT is currentSpeed * elapsed * 60.
updateDistanceBasedOnTime(g, dT) ==
    IF ~g.isRunning THEN g
    ELSE IF ~g.gameStartTime
    THEN [g EXCEPT !.gameStartTime = TRUE, !.lastDistanceUpdateTime = now]
    ELSE IF now - g.lastDistanceUpdateTime < 16 THEN g
    ELSE DistanceUpdated(updateSpeedBasedOnDistance(
                             [g EXCEPT !.distanceTraveled = @ + dT]))

\* client.js:1672-1679: in multiplayer the server is told the position.
ReportMovement(g) == IF ~g.singlePlayerMode THEN updatePlayer(g) ELSE g

\* client.js:1548-1680; dM is the distance the player's mesh moved.
updateMovement(g, dM) ==
    IF ~g.isRunning THEN g
    ELSE IF ~g.singlePlayerMode /\ g.playerId = 0 THEN g
    ELSE IF ~g.hasMesh THEN g
    ELSE IF g.eliminated THEN g
    ELSE ReportMovement([g EXCEPT !.distanceTraveled = @ + dM,
                                  !.pos = @ + dM])

(***************************************************************************)
(* The frame.                                                              *)
(***************************************************************************)
\* client.js:3015-3023, with floor(baseSpeed * 3) in 1/10000 units.
guaranteedCount(g) ==
    minBaseCount + (g.baseSpeed * 3) \div 10000 + g.difficultyLevel * 3
      + (g.distanceTraveled \div 1000) * 5

\* client.js:3067-3071: when the first spawn of the frame fails, an
\* emergency asteroid is spawned.
SpawnFallback(g, i) ==
    IF g.ret = 0 /\ i = 1 THEN spawnEmergencyAsteroid(g) ELSE g

\* The spawn loop of animate (client.js:3046-3072): iteration i of n, with
\* the positions sp of this frame's spawns.
RECURSIVE SpawnLoop(_, _, _, _)
SpawnLoop(g, i, n, sp) ==
    IF i > n THEN g
    ELSE SpawnLoop(SpawnFallback(spawnAsteroid(g, sp[i]), i), i + 1, n, sp)

\* client.js:3009-3012: a difficulty level never set becomes 1.
DefaultDifficulty(g) ==
    IF g.difficultyLevel = 0 THEN [g EXCEPT !.difficultyLevel = 1] ELSE g

\* Variant of ManageDensity: the gap to the guaranteed count is filled in
\* one frame.
ManageDensityFillsGap(g, sp) ==
    IF Len(g.asteroids) < guaranteedCount(g)
    THEN SpawnLoop(g, 1, guaranteedCount(g) - Len(g.asteroids),
                   [i \in 1..(guaranteedCount(g) - Len(g.asteroids)) |-> sp[1]])
    ELSE g

\* client.js:3014-3073: asteroids are spawned up to the guaranteed count,
\* spawnCap of them in one frame at most.
ManageDensity(g, sp) ==
    LET activeCount == Len(g.asteroids)
        neededCount == guaranteedCount(g) - activeCount
    IN IF activeCount < guaranteedCount(g)
       THEN SpawnLoop(g, 1, Min(spawnCap, neededCount), sp)
       ELSE g

\* client.js:3100-3103: the cleanup, in one frame out of twenty.
PeriodicCleanup(g, z, cl) == IF cl THEN cleanupAsteroids(g, z) ELSE g

\* client.js:2997-3107, the part of the frame that runs while the game is
\* running: update, density management, and cleanup in one frame out of
\* twenty (cl).  animate has no try block: an exception thrown by
\* updateAsteroids ends the frame.
AfterUpdate(g, z, sp, cl) ==
    IF g.thrown THEN g
    ELSE PeriodicCleanup(ManageDensity(DefaultDifficulty(g), sp), z, cl)

GameElements(g, z, sp, cl) == AfterUpdate(updateAsteroids(g, z), z, sp, cl)

\* client.js:2989-2992: the distance is tracked unless the game is over.
TrackDistance(g, isGameOver, dT) ==
    IF ~isGameOver THEN updateDistanceBasedOnTime(g, dT) ELSE g

\* client.js:2997-3107: the game elements are updated when the game is
\* running and not over; an exception thrown before ends the frame.
RunningFrame(g, isGameOver, z, sp, cl) ==
    IF g.thrown THEN g
    ELSE IF g.isRunning /\ ~isGameOver THEN GameElements(g, z, sp, cl)
    ELSE g

\* client.js:2980-3108.  Return values and the exception do not outlive the
\* frame.
animate(g, dM, dT, z, sp, cl) ==
    RunningFrame(TrackDistance(updateMovement(g, dM), g.eliminated, dT),
                 g.eliminated, z, sp, cl)

(***************************************************************************)
(* Messages from the server (network.js:49-124) and the listeners the      *)
(* client registers for them (client.js:2250-2309).  A message is          *)
(* [type, id, players]; players maps a player id to [ready, health].       *)
(***************************************************************************)
\* A player as the server keeps it and sends it (server.js:144-152), at
\* the origin.
PlayerRecord(r, h) == [ready |-> r, health |-> h, position |-> 0]

\* A player at position p.
PlayerAt(r, h, p) == [PlayerRecord(r, h) EXCEPT !.position = p]

\* this.gameState.players = data.players (network.js:59, 65, 85): the own
\* record is the one of the message.
SetPlayers(g, ps) ==
    [g EXCEPT !.self = IF g.playerId \in DOMAIN ps
                       THEN <<ps[g.playerId].position>> ELSE <<>>]

\* Variant of MergeGameState: the position of the server is kept.
MergeGameStateServerWins(g, ps) ==
    [SetPlayers(g, ps) EXCEPT !.merged = SetPlayers(g, ps).self]

\* network.js:89-109, 'gameStateUpdated': the state of the message replaces
\* the local one, but the own record keeps the position (and rotation) the
\* local record had, when there was one.  merged is the own position the
\* message carried.
MergeGameState(g, ps) ==
    LET localPlayerData == g.self
        h == SetPlayers(g, ps)
    IN [h EXCEPT !.self = IF localPlayerData # <<>> /\ h.self # <<>>
                          THEN localPlayerData ELSE @,
                 !.merged = h.self]

\* No players.
NoPlayers == [p \in {} |-> PlayerRecord(FALSE, 0)]

\* client.js:2552-2566: the local player becomes the record of the message,
\* which has no eliminated, lastCollisionTime or distanceTraveled field.
updatePlayerList(g, ps) ==
    IF g.playerId \in DOMAIN ps
    THEN [g EXCEPT !.health = ps[g.playerId].health,
                   !.eliminated = FALSE,
                   !.lastCollisionTime = 0,
                   !.distanceTraveled = 0]
    ELSE g

\* client.js:2649-2710: the own mesh exists afterwards exactly when the own
\* record is among the players; a new own mesh turns a health of 0 into 100.
updatePlayerMeshes(g, ps) ==
    IF g.singlePlayerMode THEN [g EXCEPT !.hasMesh = TRUE]
    ELSE IF g.playerId \in DOMAIN ps
    THEN [g EXCEPT !.hasMesh = TRUE,
                   !.pos = IF ~g.hasMesh THEN 0 ELSE @,
                   !.health = IF ~g.hasMesh /\ @ = 0 THEN initialHealth ELSE @]
    ELSE [g EXCEPT !.hasMesh = FALSE]

\* client.js:2712-2720: health || own health.
updateGameState(g, ps) ==
    IF g.playerId \in DOMAIN ps /\ g.hasMesh
    THEN [g EXCEPT !.health = IF ps[g.playerId].health # 0
                              THEN ps[g.playerId].health ELSE @]
    ELSE g

\* client.js:2253-2266, the listener of 'connected'.
OnConnected(g) ==
    initAsteroidSystem(
        [g EXCEPT !.joinBtn = IF ~g.singlePlayerMode THEN TRUE ELSE @])

\* client.js:2268-2272, the listener of 'playersUpdated'.
OnPlayersUpdated(g, ps) == updatePlayerMeshes(updatePlayerList(g, ps), ps)

\* client.js:2274-2284, the listener of 'gameStarted'.
OnGameStarted(g, ps) ==
    BeginSession([updatePlayerMeshes(g, ps) EXCEPT !.difficultyLevel = 1,
                                                   !.distanceTraveled = 0])

\* network.js:64-81: the host (smallest id) sends startGame when two or
\* more players are all ready.
AutoStart(g, ps) ==
    IF Cardinality(DOMAIN ps) >= 2 /\ (\A p \in DOMAIN ps : ps[p].ready)
       /\ g.playerId \in DOMAIN ps /\ (\A p \in DOMAIN ps : g.playerId <= p)
    THEN startGame(g) ELSE g

\* network.js:49-124.  Any other type ('gameStart', 'gameState',
\* 'gameLost', ...) has no case and is ignored.
handleMessage(g, m) ==
    CASE m.type = "connected" ->
           OnConnected([g EXCEPT !.playerId = m.id,
                                 !.hasMesh = @ /\ m.id = g.playerId])
      [] m.type = "joined" ->
           OnPlayersUpdated(
               OnConnected(SetPlayers([g EXCEPT !.playerId = m.id,
                                                !.hasMesh = @ /\ m.id = g.playerId],
                                      m.players)),
               m.players)
      [] m.type = "playersUpdated" ->
           OnPlayersUpdated(AutoStart(SetPlayers(g, m.players), m.players),
                            m.players)
      [] m.type = "gameStarted" ->
           OnGameStarted(SetPlayers([g EXCEPT !.isRunning = TRUE], m.players),
                         m.players)
      [] m.type = "gameStateUpdated" ->
           updateGameState(MergeGameState(g, m.players), m.players)
      [] m.type = "gameOver" -> [g EXCEPT !.isRunning = FALSE]
      [] OTHER -> g

(***************************************************************************)
(* The buttons (client.js:2369-2510).                                      *)
(***************************************************************************)
\* client.js:2395-2408
JoinClick(g) ==
    [joinLobby(g) EXCEPT !.joinBtn = FALSE, !.readyBtn = TRUE,
                         !.singlePlayerBtn = FALSE]

\* client.js:2410-2418.  The start button it enables sends 'startGame'
\* (client.js:2420-2426), a type the server has no branch for.
ReadyClick(g) == [setReady(g) EXCEPT !.readyBtn = FALSE]

\* client.js:2428-2483: the network layer is replaced by a stub with the id
\* 'local-player', the local player by a new record; the pool is created
\* unless it exists; the start timer is set.
SinglePlayerClick(g) ==
    LET g1 == [g EXCEPT !.joinBtn = FALSE, !.readyBtn = FALSE,
                        !.singlePlayerBtn = FALSE,
                        !.singlePlayerMode = TRUE,
                        !.playerId = LocalPlayerId,
                        !.health = initialHealth,
                        !.eliminated = FALSE,
                        !.lastCollisionTime = 0,
                        !.distanceTraveled = 0,
                        !.hasMesh = TRUE,
                        !.pos = IF ~g.hasMesh THEN 0 ELSE @,
                        !.self = <<0>>,
                        !.startTimer = TRUE]
    IN IF ~g1.poolInit THEN initAsteroidSystem(g1) ELSE g1

\* The loop of the start timer (client.js:2499-2501).
RECURSIVE InitialWave(_, _, _)
InitialWave(g, i, sp) ==
    IF i > initialWave THEN g
    ELSE InitialWave(spawnAsteroid(g, sp[i]), i + 1, sp)

\* client.js:2486-2504, the timer that starts the single-player game.
SinglePlayerTimer(g, sp) ==
    LET g1 == BeginSession([g EXCEPT !.startTimer = FALSE,
                                     !.isRunning = TRUE,
                                     !.difficultyLevel = 1])
    IN InitialWave(g1, 1, sp)

(***************************************************************************)
(* Actions of the client.                                                  *)
(***************************************************************************)
\* The healths a broadcast may carry for the player: the relay stores any
\* health an 'update' gives it (server.js:188-204).
HealthInputs == {0, damage \div 2, initialHealth}

\* What a frame may add to the distance: nothing, or one step by the
\* movement, by the clock, or by both; never beyond MaxDistance.
DistanceInputs(g) ==
    IF ~g.isRunning \/ g.eliminated THEN {<<0, 0>>}
    ELSE {d \in {0, DistanceStep} \X {0, DistanceStep} :
            /\ g.distanceTraveled + d[1] + d[2] <= MaxDistance
            /\ g.pos + d[1] <= MaxDistance}

\* The motions a frame may see: for each of the three ranges one active
\* asteroid or none, the asteroids being distinct (frames with two
\* asteroids within the collision threshold: see CollisionInputs); an asteroid beyond
\* cleanupDistance matters only in a frame that runs the cleanup.
MotionInputs(g, cl) ==
    IF ~g.isRunning \/ g.eliminated THEN {NoMotion}
    ELSE LET A == Range(g.asteroids) \cup {0}
         IN {z \in [hit : A, hit2 : {0}, out : A,
                     far : IF cl THEN A ELSE {0}, bad : {0}] :
               /\ z.hit = 0 \/ (z.hit # z.out /\ z.hit # z.far)
               /\ z.out = 0 \/ z.out # z.far}

\* Time passes (Date.now() grows).
Tick ==
    /\ now < StartMs + MaxTicks * TickMs
    /\ now' = now + TickMs
    /\ UNCHANGED <<client, net>>

\* requestAnimationFrame fires: one call of animate.  The positions of
\* the spawns are not followed here (see CruiseFrame).
Frame(c) ==
    \E cl \in BOOLEAN : \E z \in MotionInputs(client[c], cl) :
      LET h == animate(Entered(client[c]), 0, 0, z,
                       [i \in 1..spawnCap |-> 400], cl)
      IN /\ ~h.overflow
         /\ client' = [client EXCEPT ![c] = [Handled(h) EXCEPT !.spawnedAt = <<>>]]
         /\ UNCHANGED <<now, net>>

\* A frame of a cruise: the player covers distance, asteroids are spawned
\* at the positions drawn, no asteroid comes within the collision threshold
\* or gets out of range, the cleanup is not drawn.
CruiseFrame(c) ==
    \E d \in DistanceInputs(client[c]), sp \in [1..spawnCap -> SpawnPositions] :
      LET h == animate(Entered(client[c]), d[1], d[2], NoMotion, sp, FALSE)
      IN /\ ~h.overflow
         /\ client' = [client EXCEPT ![c] = Handled(h)]
         /\ UNCHANGED <<now, net>>

\* Time passes in a long cruise.
LongTick ==
    /\ now < StartMs + MaxSpeedTicks * TickMs
    /\ now' = now + TickMs
    /\ UNCHANGED <<client, net>>

\* What a frame of a long cruise adds to the distance: <<measured movement,
\* currentSpeed * elapsed * 60>>.
SpeedInputs(g) ==
    IF ~g.isRunning \/ g.eliminated THEN {<<0, 0>>}
    ELSE {d \in {<<DistanceStep, 0>>, <<0, DistanceStep>>} :
            g.distanceTraveled + d[1] + d[2] <= MaxSpeedDistance}

\* A frame of a long cruise: the player covers distance, no asteroid comes
\* within the collision threshold or gets out of range.
SpeedFrame(c) ==
    \E d \in SpeedInputs(client[c]) :
      LET h == animate(Entered(client[c]), d[1], d[2], NoMotion,
                       [i \in 1..spawnCap |-> 400], FALSE)
      IN /\ ~h.overflow
         /\ client' = [client EXCEPT ![c] = [Handled(h) EXCEPT !.spawnedAt = <<>>]]
         /\ UNCHANGED <<now, net>>

\* The motions of a frame in which up to two asteroids are within the
\* collision threshold, z.hit nearer than z.hit2, and none is out of range.
CollisionInputs(g) ==
    IF ~g.isRunning \/ g.eliminated THEN {NoMotion}
    ELSE LET A == Range(g.asteroids) \cup {0}
         IN {z \in [hit : A, hit2 : A, out : {0}, far : {0}, bad : {0}] :
               z.hit2 # 0 => (z.hit # 0 /\ z.hit # z.hit2)}

\* The client after a frame that sees the collision candidates of z.
CollisionFrameResult(g, z) ==
    [Handled(animate(Entered(g), 0, 0, z, [i \in 1..spawnCap |-> 400], FALSE))
       EXCEPT !.spawnedAt = <<>>]

\* A frame with collision candidates.
CollisionFrame(c) ==
    \E z \in CollisionInputs(client[c]) :
       /\ ~CollisionFrameResult(client[c], z).overflow
       /\ client' = [client EXCEPT ![c] = CollisionFrameResult(@, z)]
       /\ UNCHANGED <<now, net>>

\* spawnAsteroidWave is called; no wave is pending.
SpawnWave(c) ==
    /\ client[c].waveTimers = <<>>
    /\ client' = [client EXCEPT ![c] = Handled(spawnAsteroidWave(Entered(@)))]
    /\ UNCHANGED <<now, net>>

\* The client after the oldest pending wave timeout has fired.
WaveTimeoutResult(g) ==
    Handled(spawnAsteroidAtPosition(
                Entered([g EXCEPT !.waveTimers = Tail(@)])))

\* A wave timeout fires.
WaveTimeout(c) ==
    /\ client[c].waveTimers # <<>>
    /\ ~WaveTimeoutResult(client[c]).overflow
    /\ client' = [client EXCEPT ![c] = WaveTimeoutResult(@)]
    /\ UNCHANGED <<now, net>>

\* A frame whose spawns draw a hunter or a plain asteroid (the same draw
\* for every spawn of the frame).
HunterFrameResult(g, b, z, cl) ==
    [Handled(animate([Entered(g) EXCEPT !.hunterDraw = b], 0, 0, z,
                     [i \in 1..spawnCap |-> 400], cl))
       EXCEPT !.spawnedAt = <<>>]

HunterFrame(c) ==
    \E b, cl \in BOOLEAN : \E z \in MotionInputs(client[c], cl) :
       /\ ~HunterFrameResult(client[c], b, z, cl).overflow
       /\ client' = [client EXCEPT ![c] = HunterFrameResult(@, b, z, cl)]
       /\ UNCHANGED <<now, net>>

\* The motions of a frame in which the update of one asteroid may throw:
\* z.bad is that asteroid, another one than those within the collision
\* threshold or out of range.
FaultInputs(g) ==
    IF ~g.isRunning \/ g.eliminated THEN {NoMotion}
    ELSE LET A == Range(g.asteroids) \cup {0}
         IN {z \in [hit : A, hit2 : {0}, out : A, far : {0}, bad : A] :
               /\ z.hit = 0 \/ z.hit # z.out
               /\ z.bad = 0 \/ (z.bad # z.hit /\ z.bad # z.out)}

\* The client after a frame that sees the motion z.
FaultFrameResult(g, z) ==
    [Handled(animate(Entered(g), 0, 0, z, [i \in 1..spawnCap |-> 400], FALSE))
       EXCEPT !.spawnedAt = <<>>]

\* A frame in which the update of an asteroid may throw.
FaultFrame(c) ==
    \E z \in FaultInputs(client[c]) :
       /\ ~FaultFrameResult(client[c], z).overflow
       /\ client' = [client EXCEPT ![c] = FaultFrameResult(@, z)]
       /\ UNCHANGED <<now, net>>

\* The single-player button is clicked.
ClickSinglePlayer(c) ==
    /\ client[c].singlePlayerBtn
    /\ client' = [client EXCEPT ![c] = Handled(SinglePlayerClick(Entered(@)))]
    /\ UNCHANGED <<now, net>>

\* The start timer of the single-player game fires.
StartTimer(c) ==
    /\ client[c].startTimer
    /\ LET h == SinglePlayerTimer(Entered(client[c]),
                                  [i \in 1..initialWave |-> 400])
       IN /\ ~h.overflow
          /\ client' = [client EXCEPT ![c] = [Handled(h) EXCEPT !.spawnedAt = <<>>]]
    /\ UNCHANGED <<now, net>>

\* The join button is clicked; the server is the environment here.
ClickJoin(c) ==
    /\ client[c].joinBtn
    /\ client' = [client EXCEPT ![c] = Handled(JoinClick(Entered(@)))]
    /\ UNCHANGED <<now, net>>

\* The join button is clicked by a player who has not joined before.
FirstJoin(c) == client[c].playerId = 0 /\ ClickJoin(c)

\* The position of the client in a message of the server: the origin, or
\* where the client is.
PositionInputs(g) == {0, g.pos}

\* The messages a server of the protocol may send to client g: the answer
\* to a join that is still unanswered, and, once the client has an id,
\* the broadcasts, carrying the client's own record.
ServerInputs(g) ==
    (IF ~g.joinBtn /\ ~g.singlePlayerMode
     THEN {[type |-> "joined", id |-> now,
            players |-> (now :> PlayerRecord(FALSE, initialHealth))]}
     ELSE {})
    \cup
    (IF g.playerId > 0 /\ ~g.singlePlayerMode
     THEN {[type |-> t, id |-> g.playerId,
            players |-> (g.playerId :> PlayerAt(TRUE, h, p))] :
             t \in {"playersUpdated", "gameStarted", "gameStateUpdated",
                    "gameOver"},
             h \in HealthInputs, p \in PositionInputs(g)}
     ELSE {})

\* A message of the server arrives at the client.
ServerMessage(c) ==
    \E m \in ServerInputs(client[c]) :
      /\ client' = [client EXCEPT ![c] = Handled(handleMessage(Entered(@), m))]
      /\ UNCHANGED <<now, net>>

(***************************************************************************)
(* startServer (server.js:53-119, 254-300).                                *)
(***************************************************************************)
\* startServer has been called: killPreviousServerProcesses is about to
\* run.  pids, pending and killedCount follow the kills, port and attempts
\* the probing loop; occupied keeps the ports the loop found in use and
\* listening the port server.listen was called with (0: none).
NotStarted ==
    [pc |-> "start", pids |-> 0, pending |-> 0, killedCount |-> 0,
     port |-> initialPort, attempts |-> 0, occupied |-> {}, listening |-> 0]

\* The server as the clients of the other specifications meet it: listening
\* on the first port.
Listening == [NotStarted EXCEPT !.pc = "listening", !.listening = initialPort]

\* server.js:54-61: with SKIP_PROCESS_CHECK the promise is resolved at once;
\* otherwise the processes are looked up.
KillBegins ==
    /\ startup.pc = "start"
    /\ \E skip \in BOOLEAN :
         startup' = [startup EXCEPT !.pc = IF skip THEN "probe" ELSE "find"]
    /\ UNCHANGED <<client, now, players, readyPlayers, gameStarted, conn,
                   toClient, toServer>>

\* server.js:76-91: the callback of the lookup.  An error, or no process
\* found, resolves the promise; otherwise n processes are to be killed.
FindDone ==
    /\ startup.pc = "find"
    /\ \E error \in BOOLEAN, n \in 0..MaxPids :
         startup' = IF error \/ n = 0 THEN [startup EXCEPT !.pc = "probe"]
                    ELSE [startup EXCEPT !.pc = "kill", !.pids = n,
                                         !.pending = n]
    /\ UNCHANGED <<client, now, players, readyPlayers, gameStarted, conn,
                   toClient, toServer>>

\* server.js:102-115: the callback of one kill; killError tells that the
\* kill failed.  When killedCount equals the number of processes the
\* promise is resolved half a second later.
KillCallback(s, killError) ==
    LET killed == IF killError THEN s.killedCount ELSE s.killedCount + 1
    IN [s EXCEPT !.killedCount = killed,
                 !.pending = @ - 1,
                 !.pc = IF killed = s.pids THEN "delay" ELSE @]

KillDone ==
    /\ startup.pc = "kill"
    /\ startup.pending > 0
    /\ \E killError \in BOOLEAN : startup' = KillCallback(startup, killError)
    /\ UNCHANGED <<client, now, players, readyPlayers, gameStarted, conn,
                   toClient, toServer>>

\* server.js:113: setTimeout(resolve, 500) fires.
KillResolved ==
    /\ startup.pc = "delay"
    /\ startup' = [startup EXCEPT !.pc = "probe"]
    /\ UNCHANGED <<client, now, players, readyPlayers, gameStarted, conn,
                   toClient, toServer>>

\* isPortInUse (server.js:254-273): the outcomes of the trial listen.
ProbeOutcomes == {"EADDRINUSE", "error", "listening"}
isPortInUse(outcome) == outcome = "EADDRINUSE"

\* Variant of ProbeStep: the next port tried is two above.
ProbeStepSkipsPort(s, outcome) ==
    IF ~isPortInUse(outcome)
    THEN [s EXCEPT !.pc = "listening", !.listening = s.port]
    ELSE [s EXCEPT !.port = @ + 2, !.attempts = @ + 1,
                   !.occupied = @ \cup {s.port},
                   !.pc = IF s.attempts + 1 < maxAttempts THEN @ ELSE "gaveUp"]

\* One iteration of the loop of startServer (server.js:284-297), and the
\* exit of the loop after it (298-299).
ProbeStep(s, outcome) ==
    IF ~isPortInUse(outcome)
    THEN [s EXCEPT !.pc = "listening", !.listening = s.port]
    ELSE [s EXCEPT !.port = @ + 1, !.attempts = @ + 1,
                   !.occupied = @ \cup {s.port},
                   !.pc = IF s.attempts + 1 < maxAttempts THEN @ ELSE "gaveUp"]

Probe ==
    /\ startup.pc = "probe"
    /\ \E outcome \in ProbeOutcomes : startup' = ProbeStep(startup, outcome)
    /\ UNCHANGED <<client, now, players, readyPlayers, gameStarted, conn,
                   toClient, toServer>>

InitStartup ==
    /\ client = [c \in Clients |-> NewClient]
    /\ now = StartMs
    /\ players = NoPlayers
    /\ readyPlayers = 0
    /\ gameStarted = FALSE
    /\ conn = [c \in Clients |-> [open |-> FALSE, playerId |-> 0, created |-> {}]]
    /\ toClient = [c \in Clients |-> <<>>]
    /\ toServer = [c \in Clients |-> <<>>]
    /\ startup = NotStarted

NextStartup ==
    \/ Tick
    \/ KillBegins
    \/ FindDone
    \/ KillDone
    \/ KillResolved
    \/ Probe

SpecStartup == InitStartup /\ [][NextStartup]_vars

Init ==
    /\ client = [c \in Clients |-> NewClient]
    /\ now = StartMs
    /\ players = NoPlayers
    /\ readyPlayers = 0
    /\ gameStarted = FALSE
    /\ conn = [c \in Clients |-> [open |-> TRUE, playerId |-> 0, created |-> {}]]
    /\ toClient = [c \in Clients |-> <<>>]
    /\ toServer = [c \in Clients |-> <<>>]
    /\ startup = Listening

Next ==
    \/ Tick
    \/ Frame(Me)
    \/ ClickSinglePlayer(Me)
    \/ StartTimer(Me)
    \/ FirstJoin(Me)
    \/ ServerMessage(Me)

Spec == Init /\ [][Next]_vars

\* Collisions: frames with several asteroids within the threshold.
NextHits ==
    \/ Tick
    \/ CollisionFrame(Me)
    \/ ClickSinglePlayer(Me)
    \/ StartTimer(Me)
    \/ FirstJoin(Me)
    \/ ServerMessage(Me)

SpecHits == Init /\ [][NextHits]_vars

\* Waves: timeouts of wave patterns across sessions.
NextWaves ==
    \/ FirstJoin(Me)
    \/ ServerMessage(Me)
    \/ SpawnWave(Me)
    \/ WaveTimeout(Me)

SpecWaves == Init /\ [][NextWaves]_vars

\* Hunters: a single-player game whose spawns draw hunters.
NextHunters ==
    \/ Tick
    \/ HunterFrame(Me)
    \/ ClickSinglePlayer(Me)
    \/ StartTimer(Me)

SpecHunters == Init /\ [][NextHunters]_vars

(***************************************************************************)
(* The motion of an asteroid in updateAsteroids (client.js:4032-4059), in  *)
(* fixed point: lengths and speeds in hundredths of a unit, vectors as     *)
(* <<x, z>>.                                                               *)
(***************************************************************************)
\* The integer square root.
ISqrt(n) == CHOOSE r \in 0..MaxRoot : r * r <= n /\ (r + 1) * (r + 1) > n

\* Vector3.length, add, sub, multiplyScalar (scalar k / d).
Length(v) == ISqrt(v[1] * v[1] + v[2] * v[2])
VAdd(v, w) == <<v[1] + w[1], v[2] + w[2]>>
VSub(v, w) == <<v[1] - w[1], v[2] - w[2]>>
VScale(v, k, d) == <<(v[1] * k) \div d, (v[2] * k) \div d>>

\* Vector3.normalize: a vector of length 100 (1.00), the zero vector for
\* the zero vector.
Normalized(v, l) == IF l = 0 THEN <<0, 0>> ELSE VScale(v, 100, l)
Normalize(v) == Normalized(v, Length(v))

\* client.js:4042: Math.max(0.5, Math.min(2.0, 500 / Math.max(10, distance))),
\* in hundredths.
proximityFactor(distance) == Max(50, Min(200, 5000000 \div Max(1000, distance)))

\* client.js:4045: targetingFactor * 0.012 * proximityFactor, in 1/10^7.
adjustmentStrength(a, distance) ==
    a.targetingFactor * 12 * proximityFactor(distance)

\* client.js:4048-4051: the blend of the current direction and the direction
\* to the player, normalized.
newDir(currentDir, toPlayer, s) ==
    Normalize(VAdd(VScale(currentDir, 10000000 - s, 100000),
                   VScale(toPlayer, s, 100000)))

\* client.js:4054: 0.2 + playerSpeed * 0.03, in hundredths.
speedFactor == 20 + (3 * playerSpeed) \div 10

\* client.js:4033-4056: the velocity of a targeting asteroid after the
\* adjustment.
Steer(a, playerPos) ==
    VScale(newDir(Normalize(a.velocity),
                  Normalize(VSub(playerPos, a.position)),
                  adjustmentStrength(a, Length(VSub(playerPos, a.position)))),
           speedFactor, 100)

\* The update with the adjustment made for every asteroid.
MoveAsteroidSteersAll(a, playerPos) ==
    [a EXCEPT !.velocity = Steer(a, playerPos),
              !.position = VAdd(@, Steer(a, playerPos)),
              !.n = @ + 1]

\* client.js:4032-4059: the adjustment of a targeting asteroid, then
\* position.add(velocity).
MoveAsteroid(a, playerPos) ==
    IF a.targetingFactor > 0
    THEN [a EXCEPT !.velocity = Steer(a, playerPos),
                   !.position = VAdd(@, Steer(a, playerPos)),
                   !.n = @ + 1]
    ELSE [a EXCEPT !.position = VAdd(@, a.velocity), !.n = @ + 1]

\* An asteroid as spawned at position p with velocity v (client.js:737, 756,
\* 806): start and v0 keep p and v, n counts its updates.
Rock(p, v, tf) ==
    [position |-> p, velocity |-> v, targetingFactor |-> tf,
     start |-> p, v0 |-> v, n |-> 0]

\* The asteroids whose motion is followed: without targeting
\* (targetingFactor 0, client.js:806) and with the targetingFactor 0.2 of
\* client.js:3969, all farther from the player than the collision threshold
\* and nearer than the range (client.js:4071-4083).
RockPositions == {<<0, 3000>>, <<2000, 0 - 2500>>}
RockInputs ==
    {Rock(p, v, 0) : p \in RockPositions,
                     v \in {<<3, 0 - 4>>, <<0, 25>>, <<0 - 10, 0>>}}
    \cup {Rock(p, v, 20) : p \in RockPositions, v \in {<<0, 0 - 21>>, <<5, 5>>}}

\* Where the player's mesh is in a frame.
PlayerPositions == {<<0, 0>>, <<0, 500>>}

\* The loop of updateAsteroids (client.js:4014-4059) over the asteroids
\* followed, with the player at playerPos.
MotionFrame(c) ==
    /\ client[c].motion # <<>>
    /\ \A i \in 1..Len(client[c].motion) : client[c].motion[i].n < MaxMotionTicks
    /\ \E playerPos \in PlayerPositions :
         client' = [client EXCEPT ![c].motion =
                       [i \in 1..Len(@) |-> MoveAsteroid(@[i], playerPos)]]
    /\ UNCHANGED <<now, net>>

\* Two asteroids in flight.
InitMotion ==
    /\ \E a, b \in RockInputs :
         client = [c \in Clients |->
                     IF c = Me THEN [NewClient EXCEPT !.motion = <<a, b>>]
                     ELSE NewClient]
    /\ now = StartMs
    /\ players = NoPlayers
    /\ readyPlayers = 0
    /\ gameStarted = FALSE
    /\ conn = [c \in Clients |-> [open |-> TRUE, playerId |-> 0, created |-> {}]]
    /\ toClient = [c \in Clients |-> <<>>]
    /\ toServer = [c \in Clients |-> <<>>]
    /\ startup = Listening

NextMotion == MotionFrame(Me)

SpecMotion == InitMotion /\ [][NextMotion]_vars

\* A long cruise: a single-player game followed past distance 300.
NextSpeed ==
    \/ LongTick
    \/ SpeedFrame(Me)
    \/ ClickSinglePlayer(Me)
    \/ StartTimer(Me)

SpecSpeed == Init /\ [][NextSpeed]_vars

(***************************************************************************)
(* updateDifficulty (client.js:3270-3301) as a function of the client and  *)
(* of this.distanceTraveled.  The program has no call of the method, keeps *)
(* this.distanceTraveled at 0 (client.js:101) and creates no waveConfig.   *)
(***************************************************************************)
\* client.js:3294.
delayReduction(level) == Min(level * 250, 2500)

\* The assignments of client.js:3290-3296 without the floors of the delays.
WaveConfigNoFloor(level) ==
    [minAsteroidsPerWave |-> Min(5 + level \div 2, 12),
     maxAsteroidsPerWave |-> Min(10 + level \div 2, 20),
     minWaveDelay |-> 3000 - delayReduction(level),
     maxWaveDelay |-> 6000 - delayReduction(level)]

\* client.js:3290-3296: the wave parameters of a difficulty level.
WaveConfig(level) ==
    [minAsteroidsPerWave |-> Min(5 + level \div 2, 12),
     maxAsteroidsPerWave |-> Min(10 + level \div 2, 20),
     minWaveDelay |-> Max(3000 - delayReduction(level), 800),
     maxWaveDelay |-> Max(6000 - delayReduction(level), 1500)]

\* A waveConfig object whose parameters have not been written.
NoWaveConfig ==
    [minAsteroidsPerWave |-> 0, maxAsteroidsPerWave |-> 0,
     minWaveDelay |-> 0, maxWaveDelay |-> 0]

\* client.js:3282-3299: the level is raised and the wave parameters are
\* written; without a waveConfig object the first assignment throws.
RaiseDifficulty(g, newDifficultyLevel) ==
    IF newDifficultyLevel > g.difficultyLevel
    THEN IF g.waveConfig = <<>>
         THEN [g EXCEPT !.difficultyLevel = newDifficultyLevel, !.thrown = TRUE]
         ELSE [g EXCEPT !.difficultyLevel = newDifficultyLevel,
                        !.waveConfig = WaveConfig(newDifficultyLevel)]
    ELSE g

\* client.js:3270-3301, with distanceTraveled for this.distanceTraveled.
updateDifficulty(g, distanceTraveled) ==
    IF now - g.lastDifficultyUpdate < difficultyUpdateInterval THEN g
    ELSE IF distanceTraveled <= 0 THEN [g EXCEPT !.lastDifficultyUpdate = now]
    ELSE RaiseDifficulty([g EXCEPT !.lastDifficultyUpdate = now],
                         1 + distanceTraveled \div difficultyMilestone)

\* The values of this.distanceTraveled the method is applied to.
DifficultyDistances == {difficultyMilestone * k : k \in 0..MaxDifficultySteps}

\* Time passes between difficulty updates.
DifficultyTick ==
    /\ now < StartMs + MaxDifficultyTicks * (difficultyUpdateInterval \div 2)
    /\ now' = now + difficultyUpdateInterval \div 2
    /\ UNCHANGED <<client, net>>

\* updateDifficulty is called.
DifficultyUpdate(c) ==
    /\ \E d \in DifficultyDistances :
         client' = [client EXCEPT ![c] = Handled(updateDifficulty(Entered(@), d))]
    /\ UNCHANGED <<now, net>>

\* A client that has a waveConfig object.
InitDifficulty ==
    /\ client = [c \in Clients |->
                   [NewClient EXCEPT !.waveConfig = NoWaveConfig]]
    /\ now = StartMs
    /\ players = NoPlayers
    /\ readyPlayers = 0
    /\ gameStarted = FALSE
    /\ conn = [c \in Clients |-> [open |-> TRUE, playerId |-> 0, created |-> {}]]
    /\ toClient = [c \in Clients |-> <<>>]
    /\ toServer = [c \in Clients |-> <<>>]
    /\ startup = Listening

NextDifficulty ==
    \/ DifficultyTick
    \/ DifficultyUpdate(Me)

SpecDifficulty == InitDifficulty /\ [][NextDifficulty]_vars

\* Faults: a single-player game in which asteroid updates may throw.
NextFaults ==
    \/ Tick
    \/ FaultFrame(Me)
    \/ ClickSinglePlayer(Me)
    \/ StartTimer(Me)

SpecFaults == Init /\ [][NextFaults]_vars

\* The cruise: progression and spawn positions.
NextCruise ==
    \/ Tick
    \/ CruiseFrame(Me)
    \/ ClickSinglePlayer(Me)
    \/ StartTimer(Me)
    \/ ClickJoin(Me)
    \/ ServerMessage(Me)

SpecCruise == Init /\ [][NextCruise]_vars

(***************************************************************************)
(* The server (server.js:126-251) and the connections.                     *)
(***************************************************************************)
\* server.js:229-233, the message of broadcastGameState.
GameStateMessage(ps) == [type |-> "gameState", id |-> 0, players |-> ps]

\* wss.clients.forEach with readyState === OPEN (server.js:176-182,
\* 244-250): the messages ms[c] are appended to the queue of every open
\* connection c.
SendToOpen(q, cn, ms) ==
    [c \in Clients |-> IF cn[c].open THEN q[c] \o ms[c] ELSE q[c]]

\* Every queue has room for n more messages.
Room(n) == \A c \in Clients : Len(toClient[c]) + n <= MaxQueue

\* server.js:142-165: 'join'.
ServerJoin(c) ==
    LET id == now
        ps == [p \in DOMAIN players \cup {id} |->
                 IF p = id THEN PlayerRecord(FALSE, initialHealth)
                 ELSE players[p]]
        joined == [type |-> "joined", id |-> id, players |-> ps]
    IN /\ Room(2)
       /\ players' = ps
       /\ conn' = [conn EXCEPT ![c].playerId = id,
                               ![c].created = @ \cup {id}]
       /\ toClient' = SendToOpen(toClient, conn,
              [d \in Clients |-> IF d = c THEN <<joined, GameStateMessage(ps)>>
                                 ELSE <<GameStateMessage(ps)>>])
       /\ UNCHANGED <<readyPlayers, gameStarted>>

\* server.js:167-186: 'ready'.  Without a record for the id the handler
\* throws at its first statement and the catch block swallows it.
ServerReady(c) ==
    LET id == conn[c].playerId
        ps == [players EXCEPT ![id].ready = TRUE]
        starts == readyPlayers + 1 >= 2 /\ ~gameStarted
        gameStart == [type |-> "gameStart", id |-> 0, players |-> NoPlayers]
    IN IF id = 0 \/ id \notin DOMAIN players
       THEN UNCHANGED <<players, readyPlayers, gameStarted, conn, toClient>>
       ELSE /\ Room(2)
            /\ players' = ps
            /\ readyPlayers' = readyPlayers + 1
            /\ gameStarted' = (gameStarted \/ starts)
            /\ toClient' = SendToOpen(toClient, conn,
                   [d \in Clients |->
                      IF starts THEN <<gameStart, GameStateMessage(ps)>>
                      ELSE <<GameStateMessage(ps)>>])
            /\ UNCHANGED conn

\* Variant of ServerUpdate: the state goes to the sender only.
ServerUpdateAnswersSender(c, m) ==
    LET id == conn[c].playerId
        ps == [players EXCEPT ![id].health = m.health,
                              ![id].position = m.position]
    IN IF id = 0 \/ id \notin DOMAIN players
       THEN UNCHANGED <<players, readyPlayers, gameStarted, conn, toClient>>
       ELSE /\ Room(1)
            /\ players' = ps
            /\ toClient' = SendToOpen(toClient, conn,
                   [d \in Clients |-> IF d = c THEN <<GameStateMessage(ps)>>
                                      ELSE <<>>])
            /\ UNCHANGED <<readyPlayers, gameStarted, conn>>

\* server.js:195-200: 'gameLost' goes to the sender when the health of the
\* message is 0 or less and the stored health, which is read after the
\* message's health has been stored, is above 0.
GameLost(m, ps, id) ==
    IF m.health <= 0 /\ ps[id].health > 0
    THEN <<[type |-> "gameLost", id |-> 0, players |-> NoPlayers]>>
    ELSE <<>>

\* server.js:188-204: 'update'.
ServerUpdate(c, m) ==
    LET id == conn[c].playerId
        ps == [players EXCEPT ![id].health = m.health,
                              ![id].position = m.position]
    IN IF id = 0 \/ id \notin DOMAIN players
       THEN UNCHANGED <<players, readyPlayers, gameStarted, conn, toClient>>
       ELSE /\ Room(1)
            /\ players' = ps
            /\ toClient' = SendToOpen(toClient, conn,
                   [d \in Clients |->
                      IF d = c THEN GameLost(m, ps, id) \o <<GameStateMessage(ps)>>
                      ELSE <<GameStateMessage(ps)>>])
            /\ UNCHANGED <<readyPlayers, gameStarted, conn>>

\* ws.on('message') (server.js:137-208): the next message of connection c
\* is handled; a type without a branch is ignored.
ServerReceive(c) ==
    /\ conn[c].open
    /\ toServer[c] # <<>>
    /\ LET m == Head(toServer[c])
       IN CASE m.type = "join" -> ServerJoin(c)
            [] m.type = "ready" -> ServerReady(c)
            [] m.type = "update" -> ServerUpdate(c, m)
            [] OTHER -> UNCHANGED <<players, readyPlayers, gameStarted, conn,
                                    toClient>>
    /\ toServer' = [toServer EXCEPT ![c] = Tail(@)]
    /\ UNCHANGED <<client, now, startup>>

\* ws.on('close') (server.js:210-225).
ServerClose(c) ==
    LET id == conn[c].playerId
        known == id # 0 /\ id \in DOMAIN players
        ps == [p \in DOMAIN players \ {id} |-> players[p]]
        rp == IF players[id].ready THEN readyPlayers - 1 ELSE readyPlayers
        cn == [conn EXCEPT ![c].open = FALSE]
    IN /\ conn[c].open
       /\ conn' = cn
       /\ toServer' = [toServer EXCEPT ![c] = <<>>]
       /\ IF known
          THEN /\ Room(1)
               /\ players' = ps
               /\ readyPlayers' = rp
               /\ gameStarted' = (gameStarted /\ ~(rp < 2))
               /\ toClient' = SendToOpen([toClient EXCEPT ![c] = <<>>], cn,
                      [d \in Clients |-> <<GameStateMessage(ps)>>])
          ELSE /\ toClient' = [toClient EXCEPT ![c] = <<>>]
               /\ UNCHANGED <<players, readyPlayers, gameStarted>>
       /\ UNCHANGED <<client, now, startup>>

\* socket.onmessage (network.js:30-38): the next message for client c is
\* handled; what the handler sends goes to the server.
Deliver(c) ==
    /\ toClient[c] # <<>>
    /\ LET h == handleMessage(Entered(client[c]), Head(toClient[c]))
       IN /\ Len(toServer[c]) + Len(h.out) <= MaxQueue
          /\ client' = [client EXCEPT ![c] = Handled(h)]
          /\ toServer' = [toServer EXCEPT ![c] = @ \o h.out]
    /\ toClient' = [toClient EXCEPT ![c] = Tail(@)]
    /\ UNCHANGED <<now, startup, players, readyPlayers, gameStarted, conn>>

\* A button of client c is clicked and its message is sent: join (by a
\* player who has not joined before), ready.
Click(c, button) ==
    /\ conn[c].open
    /\ Len(toServer[c]) < MaxQueue
    /\ \/ button = "join" /\ client[c].joinBtn /\ client[c].playerId = 0
       \/ button = "ready" /\ client[c].readyBtn
    /\ LET h == IF button = "join" THEN JoinClick(Entered(client[c]))
                ELSE ReadyClick(Entered(client[c]))
       IN /\ client' = [client EXCEPT ![c] = Handled(h)]
          /\ toServer' = [toServer EXCEPT ![c] = @ \o h.out]
    /\ UNCHANGED <<now, startup, players, readyPlayers, gameStarted, conn, toClient>>

\* The health a peer may report in an 'update' message.
UpdateHealths == {initialHealth \div 2, initialHealth + damage}
\* The health and position of an 'update': a player that has moved and
\* lost health, or one at the origin with a health out of range.
UpdateInputs ==
    {<<h, IF h <= initialHealth THEN DistanceStep ELSE 0>> : h \in UpdateHealths}

\* A peer that has joined over connection c reports its state with an
\* 'update' message (the message server.js:188 handles; NetworkManager
\* itself sends 'updatePlayer', network.js:145-152).
PeerUpdate(c) ==
    /\ conn[c].open
    /\ conn[c].playerId # 0
    /\ Len(toServer[c]) < MaxQueue
    /\ \E u \in UpdateInputs :
         toServer' = [toServer EXCEPT ![c] =
                         Append(@, ClientMessage("update", u[1], u[2]))]
    /\ UNCHANGED <<client, now, startup, players, readyPlayers, gameStarted, conn,
                   toClient>>

\* socket.onopen (network.js:20-29): the socket of client c is open.
SocketOpens(c) ==
    /\ client[c].readyState = "connecting"
    /\ client' = [client EXCEPT ![c].readyState = "open"]
    /\ UNCHANGED <<now, net>>

\* socket.onclose (network.js:40-42): the socket of client c has closed.
SocketCloses(c) ==
    /\ client[c].readyState = "open"
    /\ client' = [client EXCEPT ![c].readyState = "closed"]
    /\ UNCHANGED <<now, net>>

\* A button of client c is pressed, whatever the state of its socket
\* (index.html:110: the join button is enabled from the start).
Press(c, button) ==
    /\ \/ button = "join" /\ client[c].joinBtn /\ client[c].playerId = 0
       \/ button = "ready" /\ client[c].readyBtn
    /\ LET h == IF button = "join" THEN JoinClick(Entered(client[c]))
                ELSE ReadyClick(Entered(client[c]))
       IN /\ Len(toServer[c]) + Len(h.out) <= MaxQueue
          /\ client' = [client EXCEPT ![c] = Handled(h)]
          /\ toServer' = [toServer EXCEPT ![c] = @ \o h.out]
    /\ UNCHANGED <<now, startup, players, readyPlayers, gameStarted, conn, toClient>>

\* A peer that has joined over connection c reports that it has lost: an
\* 'update' with health 0.
PeerReportsLoss(c) ==
    /\ conn[c].open
    /\ conn[c].playerId # 0
    /\ Len(toServer[c]) < MaxQueue
    /\ toServer' = [toServer EXCEPT ![c] = Append(@, ClientMessage("update", 0, 0))]
    /\ UNCHANGED <<client, now, startup, players, readyPlayers, gameStarted, conn,
                   toClient>>

NextNet ==
    \/ Tick
    \/ \E c \in Clients : Click(c, "join")
    \/ \E c \in Clients : Click(c, "ready")
    \/ \E c \in Clients : PeerUpdate(c)
    \/ \E c \in Clients : ServerReceive(c)
    \/ \E c \in Clients : ServerClose(c)
    \/ \E c \in Clients : Deliver(c)

SpecNet == Init /\ [][NextNet]_vars

\* The state after connect() (network.js:11-18, client.js:2308): the
\* sockets are connecting.
InitConnecting ==
    /\ client = [c \in Clients |-> [NewClient EXCEPT !.readyState = "connecting"]]
    /\ now = StartMs
    /\ players = NoPlayers
    /\ readyPlayers = 0
    /\ gameStarted = FALSE
    /\ conn = [c \in Clients |-> [open |-> TRUE, playerId |-> 0, created |-> {}]]
    /\ toClient = [c \in Clients |-> <<>>]
    /\ toServer = [c \in Clients |-> <<>>]
    /\ startup = Listening

\* The lobby over sockets that open and close.
NextSocket ==
    \/ \E c \in Clients : SocketOpens(c)
    \/ \E c \in Clients : SocketCloses(c)
    \/ \E c \in Clients : Press(c, "join")
    \/ \E c \in Clients : Press(c, "ready")
    \/ \E c \in Clients : ServerReceive(c)
    \/ \E c \in Clients : ServerClose(c)
    \/ \E c \in Clients : Deliver(c)

SpecSocket == InitConnecting /\ [][NextSocket]_vars

(***************************************************************************)
(* The relay alone: its peers are any WebSocket clients, which send the    *)
(* messages it has branches for in any order and drop what it sends.       *)
(***************************************************************************)
\* A peer sends 'join' or 'ready' over connection c.
PeerSend(c) ==
    /\ conn[c].open
    /\ Len(toServer[c]) < MaxQueue
    /\ \E t \in {"join", "ready"} :
         /\ t = "ready" => readyPlayers < MaxReady
         /\ toServer' = [toServer EXCEPT ![c] =
                            Append(@, ClientMessage(t, 0, 0))]
    /\ UNCHANGED <<client, now, startup, players, readyPlayers, gameStarted, conn,
                   toClient>>

\* The peer of connection c takes the next message the relay sent it.
PeerReceive(c) ==
    /\ toClient[c] # <<>>
    /\ toClient' = [toClient EXCEPT ![c] = Tail(@)]
    /\ UNCHANGED <<client, now, startup, players, readyPlayers, gameStarted, conn,
                   toServer>>

NextServer ==
    \/ Tick
    \/ \E c \in Clients : PeerSend(c)
    \/ \E c \in Clients : ServerReceive(c)
    \/ \E c \in Clients : ServerClose(c)
    \/ \E c \in Clients : PeerReceive(c)

SpecServer == Init /\ [][NextServer]_vars

\* The relay with peers that report a loss.
NextLoss ==
    \/ \E c \in Clients : PeerSend(c)
    \/ \E c \in Clients : PeerReportsLoss(c)
    \/ \E c \in Clients : ServerReceive(c)
    \/ \E c \in Clients : PeerReceive(c)

SpecLoss == Init /\ [][NextLoss]_vars

(***************************************************************************)
(* Properties.                                                             *)
(***************************************************************************)
gc == client[Me]

\* C1: no asteroid is in the free list and in the active list at the same
\* time.
C1_ListsDisjoint ==
    Range(gc.asteroids) \cap Range(gc.inactiveAsteroids) = {}

\* Both lists are populated and the free list holds more than the pool's
\* creation and growth put there: asteroids have been released.
C1_Witness ==
    /\ Len(gc.asteroids) >= 1
    /\ Len(gc.inactiveAsteroids) >= Max(poolSize + 1, minExpansion)

\* C2: an asteroid's active flag is true exactly when the asteroid is in
\* the active list.
C2_ActiveFlagMatchesList ==
    \A a \in AsteroidIds : gc.ast[a].active <=> a \in Range(gc.asteroids)

\* C3: the number of slots, active and free together, never exceeds the
\* ceiling.
C3_CeilingRespected ==
    Len(gc.asteroids) + Len(gc.inactiveAsteroids) <= maxPoolSize

\* C4: an acquire at the ceiling with no free slot returns the active
\* asteroid with the smallest creationTime, stamped with the current time;
\* the asteroid is in the active list exactly once and the list has not
\* grown.
C4_RecycleOldest ==
    gc.acq.branch = "recycle" =>
        /\ gc.acq.returned
        /\ gc.acq.oldest
        /\ gc.acq.stamped
        /\ gc.acq.count = 1
        /\ gc.acq.grown = 0

\* An asteroid was recycled while the active list held asteroids of
\* different creation times.
C4_Witness ==
    /\ gc.acq.branch = "recycle"
    /\ \E a, b \in Range(gc.asteroids) :
          gc.ast[a].creationTime < gc.ast[b].creationTime

\* C5: getAsteroidFromPool never returns null; the asteroid it returns is
\* marked active and is in the active list.
C5_AcquireNeverNull ==
    gc.acq.branch # "none" =>
        /\ gc.acq.returned
        /\ gc.acq.active
        /\ gc.acq.count >= 1

\* The free list was empty below the ceiling: the pool grew to serve the
\* acquire.
C5_Witness ==
    /\ gc.acq.branch = "grow"
    /\ gc.acq.returned
    /\ gc.acq.active

SessionBegins ==
    \/ StartTimer(Me)
    \/ \E m \in ServerInputs(gc) :
         /\ m.type = "gameStarted"
         /\ client' = [client EXCEPT ![Me] = Handled(handleMessage(Entered(@), m))]

\* C8: within a running session difficultyLevel never decreases.
C8_DifficultyMonotone ==
    [][(gc.isRunning /\ client'[Me].isRunning /\ ~SessionBegins)
          => client'[Me].difficultyLevel >= gc.difficultyLevel]_vars

\* C9: no asteroid is spawned closer than minimumAsteroidSpacing to another
\* asteroid (here: to another asteroid spawned in the same frame, which has
\* not moved since).
C9_SpawnSpacing ==
    \A i, j \in 1..Len(gc.spawnedAt) :
        i < j => Abs(gc.spawnedAt[i] - gc.spawnedAt[j]) >= minimumAsteroidSpacing

\* C6: every player's health is within [0, 100]: the local player's of every
\* client and every record the server keeps.
C6_HealthInRange ==
    /\ \A c \in Clients : client[c].health \in 0..initialHealth
    /\ \A p \in DOMAIN players : players[p].health \in 0..initialHealth

\* Client c has joined: it has its id, and the server has the record.
Joined(c) == client[c].playerId # 0 /\ client[c].playerId \in DOMAIN players

\* C10: when two players have joined and both are ready, the session starts
\* by itself: once the messages are delivered, every joined client is
\* running with difficultyLevel 1.
C10_AutoStart ==
    ( /\ \A c \in Clients : Joined(c) /\ players[client[c].playerId].ready
      /\ Cardinality(DOMAIN players) >= 2
      /\ \A c \in Clients : toClient[c] = <<>> /\ toServer[c] = <<>> )
    => \A c \in Clients : client[c].isRunning /\ client[c].difficultyLevel = 1

\* The players that are connected: the ids of the open connections that
\* have joined.
ConnectedPlayers ==
    {conn[c].playerId : c \in {d \in Clients : conn[d].open /\ conn[d].playerId # 0}}

\* The connected players that are ready.
ReadyConnected ==
    {p \in ConnectedPlayers : p \in DOMAIN players /\ players[p].ready}

\* C11: the relay starts the session (gameStarted becomes true) only when
\* at least 2 distinct players are connected and every connected player is
\* ready.
C11_StartNeedsTwoReady ==
    [][(~gameStarted /\ gameStarted')
          => /\ Cardinality(ConnectedPlayers') >= 2
             /\ ReadyConnected' = ConnectedPlayers']_vars

\* A step that merges a 'gameStateUpdated' broadcast into the client.
MergeStep ==
    \E m \in ServerInputs(gc) :
       /\ m.type = "gameStateUpdated"
       /\ client' = [client EXCEPT ![Me] = Handled(handleMessage(Entered(@), m))]

\* C12: the merge of a broadcast that echoes the player's own record leaves
\* the player's own position as it was locally: the position of the own
\* mesh, and the position in the local record when there was one.
C12_MergeKeepsOwnPosition ==
    [][MergeStep => /\ client'[Me].pos = gc.pos
                    /\ gc.self # <<>> => client'[Me].self = gc.self]_vars

\* A broadcast was merged that carried another position for the player
\* than the local record has, and the player has moved from the origin.
C12_Witness ==
    /\ gc.merged # <<>>
    /\ gc.self # <<>>
    /\ gc.merged # gc.self
    /\ gc.hasMesh
    /\ gc.pos # 0

\* C13: after a server broadcast that carries the player's own record was
\* merged by a client showing the own ship, the player's health is the
\* health of the broadcast, whatever the value, 0 included.
C13_MergedHealthIsServerHealth ==
    [][\A m \in ServerInputs(gc) :
          ( /\ m.type = "gameStateUpdated"
            /\ gc.playerId \in DOMAIN m.players
            /\ gc.hasMesh
            /\ client' = [client EXCEPT
                              ![Me] = Handled(handleMessage(Entered(@), m))] )
          => client'[Me].health = m.players[gc.playerId].health]_vars

\* ws.on('close') (server.js:210-225) ran for connection c, which had joined.
Disconnects(c) ==
    /\ conn[c].open
    /\ ~conn'[c].open
    /\ conn[c].playerId # 0

\* C14: after the relay handled the disconnect of a player, that player is
\* not in the player map, and when fewer than 2 ready players remain
\* connected the session is not started.
C14_DisconnectResets ==
    [][\A c \in Clients :
          Disconnects(c)
          => /\ conn[c].playerId \notin DOMAIN players'
             /\ Cardinality(ReadyConnected') < 2 => ~gameStarted']_vars

\* handleAsteroidCollision (client.js:1386-1494) passed its cooldown test in
\* this step: it is the only place that stores the clock in
\* lastCollisionTime.
HitStep ==
    /\ gc.lastCollisionTime # now
    /\ client'[Me].lastCollisionTime = now

\* C15: a hit taken at a health h > 0 leaves the health at max(0, h - 10),
\* and when that is 0 the same step marks the player eliminated and stops
\* the game.
C15_HitDamage ==
    [][(HitStep /\ gc.health > 0)
       => /\ client'[Me].health = Max(0, gc.health - damage)
          /\ client'[Me].health = 0
               => client'[Me].eliminated /\ ~client'[Me].isRunning]_vars

\* A hit taken at a health below the damage has ended the game: the health
\* is 0, not negative, and the player is eliminated.
C15_Witness ==
    /\ gc.lastCollisionTime = now
    /\ gc.health = 0
    /\ gc.eliminated
    /\ ~gc.isRunning
    /\ gc.eliminations = 1

\* The cooldown of handleAsteroidCollision (client.js:1388-1389) has not
\* run out for g.
InCooldown(g) ==
    /\ g.lastCollisionTime # 0
    /\ now - g.lastCollisionTime <= collisionCooldown

\* The client after a frame that sees the motion z.
FrameResult(g, z, cl) ==
    animate(Entered(g), 0, 0, z, [i \in 1..spawnCap |-> 400], cl)

AfterHit(g, a) == handleAsteroidCollision(Entered(g), a)

\* C17: a hit deactivates the asteroid and returns it to the pool: after
\* the hit it is not in the active list, its active flag is false, it is
\* in the free list, and the pool has as many slots (active and free) as
\* before.
C17_HitReturnsToPool ==
    (gc.isRunning /\ gc.hasMesh /\ ~InCooldown(gc))
    => \A a \in Range(gc.asteroids) :
          /\ a \notin Range(AfterHit(gc, a).asteroids)
          /\ ~AfterHit(gc, a).ast[a].active
          /\ a \in Range(AfterHit(gc, a).inactiveAsteroids)
          /\ Len(AfterHit(gc, a).asteroids) + Len(AfterHit(gc, a).inactiveAsteroids)
               = Len(gc.asteroids) + Len(gc.inactiveAsteroids)

\* C18: a frame handles at most one collision candidate, the nearest one:
\* the health drops by at most 10 in a frame, and a frame with a second,
\* farther candidate leaves the client as the frame without it does.
C18_OneHitPerFrame ==
    [][\A z \in CollisionInputs(gc) :
          client' = [client EXCEPT ![Me] = CollisionFrameResult(@, z)]
          => /\ client'[Me].health >= gc.health - damage
             /\ [client'[Me] EXCEPT !.severalHits = FALSE]
                  = CollisionFrameResult(gc, [z EXCEPT !.hit2 = 0])]_vars

\* A frame had more than one asteroid within the threshold and took a hit,
\* one hit.
C18_Witness ==
    /\ gc.severalHits
    /\ gc.lastCollisionTime = now
    /\ gc.health = initialHealth - damage

\* A step that resets the game on purpose: the player clicks the
\* single-player or the join button, or a session begins.
ExplicitReset ==
    \/ ClickSinglePlayer(Me)
    \/ ClickJoin(Me)
    \/ SessionBegins

\* C19: elimination is terminal for the session: an eliminated player
\* stays eliminated with health 0, and the game does not get running
\* again, unless the game is reset on purpose.
C19_EliminationTerminal ==
    [][(gc.eliminated /\ ~ExplicitReset)
       => /\ client'[Me].eliminated
          /\ client'[Me].health = 0
          /\ client'[Me].isRunning => gc.isRunning]_vars

HandlesUpdate(c) ==
    /\ toServer[c] # <<>>
    /\ Head(toServer[c]).type = "update"
    /\ conn[c].playerId \in DOMAIN players
    /\ ServerReceive(c)

\* C21: handling an 'update' changes the stored position and health of the
\* sender only: the other records, the ready flag of the sender, the ready
\* counter and gameStarted stay, and the whole state is sent to every open
\* connection.
C21_UpdateTouchesSenderOnly ==
    [][\A c \in Clients :
          HandlesUpdate(c)
          => /\ DOMAIN players' = DOMAIN players
             /\ \A p \in DOMAIN players \ {conn[c].playerId} :
                   players'[p] = players[p]
             /\ players'[conn[c].playerId] =
                   [players[conn[c].playerId] EXCEPT
                      !.health = Head(toServer[c]).health,
                      !.position = Head(toServer[c]).position]
             /\ readyPlayers' = readyPlayers
             /\ gameStarted' = gameStarted
             /\ \A d \in Clients :
                   toClient'[d] = IF conn[d].open
                                  THEN Append(toClient[d],
                                              GameStateMessage(players'))
                                  ELSE toClient[d]]_vars

\* An update has been handled while two players were joined over two open
\* connections: one record has the health of the update, the other one is
\* as the join made it, and the state is on its way to both connections.
C21_Witness ==
    /\ \A c \in Clients : conn[c].open /\ conn[c].playerId \in DOMAIN players
    /\ conn[1].playerId # conn[2].playerId
    /\ players[conn[1].playerId].health = initialHealth \div 2
    /\ players[conn[2].playerId] = PlayerRecord(FALSE, initialHealth)
    /\ \A c \in Clients :
          /\ toClient[c] # <<>>
          /\ toClient[c][Len(toClient[c])] = GameStateMessage(players)

\* C22: every asteroid in the free list has been released: its active flag
\* is false and its hunter flag is cleared.
C22_FreeListIsClean ==
    \A a \in Range(gc.inactiveAsteroids) :
       ~gc.ast[a].active /\ ~gc.ast[a].isHunter

\* C23: a frame spawns at most spawnCap asteroids (4 in the source), and
\* the active list grows by at most that many, however far the active
\* count is below the guaranteed count.
C23_SpawnCapPerFrame ==
    [][client'[Me].spawnedAt # <<>>
       => /\ Len(client'[Me].spawnedAt) <= spawnCap
          /\ Len(client'[Me].asteroids) <= Len(gc.asteroids) + spawnCap]_vars

\* The last frame has spawned spawnCap asteroids and the active count is
\* still below the guaranteed count: it was more than spawnCap below.
C23_Witness ==
    /\ gc.isRunning
    /\ Len(gc.spawnedAt) = spawnCap
    /\ Len(gc.asteroids) < guaranteedCount(gc)

\* C24: after a frame of a running game in which the player has covered
\* distance, difficultyLevel is 1 + floor(distance travelled / 300).
C24_DifficultyFollowsDistance ==
    [][( /\ gc.isRunning
         /\ client'[Me].isRunning
         /\ client'[Me].distanceTraveled > gc.distanceTraveled )
       => client'[Me].difficultyLevel
            = 1 + client'[Me].distanceTraveled \div difficultyMilestone]_vars

C26_NotOpenDrops ==
    [][\A c \in Clients :
          client[c].readyState # "open"
          => /\ \A t \in {"join", "ready", "updatePlayer", "gameOver"} :
                  sendMessage(client[c], ClientMessage(t, 0, 0)) = client[c]
             /\ Len(toServer'[c]) <= Len(toServer[c])
             /\ client'[c].out = <<>>]_vars

\* Join was pressed while the socket was not open and the socket has opened
\* since: nothing is on the way and the relay has no join of this
\* connection.
C26_Witness ==
    /\ gc.readyState = "open"
    /\ ~gc.joinBtn
    /\ gc.playerId = 0
    /\ conn[Me].open
    /\ conn[Me].playerId = 0
    /\ toServer[Me] = <<>>

\* C27: an active asteroid with targetingFactor 0 keeps its velocity in
\* every update and each update adds that velocity to its position: after n
\* updates it is at its start plus n times its velocity, wherever the player
\* is.
C27_StraightLine ==
    \A i \in 1..Len(gc.motion) :
       gc.motion[i].targetingFactor = 0
       => /\ gc.motion[i].velocity = gc.motion[i].v0
          /\ gc.motion[i].position =
                VAdd(gc.motion[i].start,
                     VScale(gc.motion[i].v0, gc.motion[i].n, 1))

\* An asteroid without targeting has been updated in every frame followed,
\* beside a targeting asteroid whose velocity was adjusted.
C27_Witness ==
    /\ Len(gc.motion) = 2
    /\ gc.motion[1].targetingFactor = 0
    /\ gc.motion[1].n = MaxMotionTicks
    /\ gc.motion[1].v0[1] # 0 /\ gc.motion[1].v0[2] # 0
    /\ gc.motion[1].position # gc.motion[1].start
    /\ gc.motion[2].targetingFactor > 0
    /\ gc.motion[2].velocity # gc.motion[2].v0

\* C28: in every state of the relay readyPlayers is the number of players
\* in the map whose ready flag is set.
C28_ReadyCounterMatches ==
    readyPlayers = Cardinality({p \in DOMAIN players : players[p].ready})

\* C29: a join never stores its player under an id that a record of the
\* map already has: the map has one record more after every join the relay
\* handles.
C29_JoinAddsRecord ==
    [][\A c \in Clients :
          (/\ conn[c].open
           /\ toServer[c] # <<>>
           /\ Head(toServer[c]).type = "join"
           /\ conn'[c].open
           /\ toServer'[c] = Tail(toServer[c]))
          => Cardinality(DOMAIN players') = Cardinality(DOMAIN players) + 1]_vars

\* C30: every record of the player map belongs to an open connection: a
\* join of a connection that is open has stored it.
C30_RecordsHaveOpenConnection ==
    \A p \in DOMAIN players :
       \E c \in Clients : conn[c].open /\ p \in conn[c].created

\* The client after the update of a frame in which asteroid a alone is out
\* of range and no asteroid is within the collision threshold.
Swept(g, a) == updateAsteroids(Entered(g), [NoMotion EXCEPT !.out = a])

\* C31: when the update of a frame retires an out-of-range asteroid, that
\* asteroid alone leaves the active list: every other asteroid of the list
\* is in the list after the update.
C31_SweepRemovesOnlyOutOfRange ==
    \A a \in Range(gc.asteroids) :
       (gc.isRunning /\ gc.hasMesh /\ ~gc.ast[a].isEmergency)
       => \A b \in Range(gc.asteroids) \ {a} :
             b \in Range(Swept(gc, a).asteroids)

\* What the two distance mechanisms of a frame add to the distance
\* travelled: d[1] is the movement the frame measures, d[2] what time and
\* speed give.
DistanceAdded(g, d) ==
    TrackDistance(updateMovement(Entered(g), d[1]), g.eliminated,
                  d[2]).distanceTraveled - g.distanceTraveled

\* C32: a frame advances the distance travelled by one mechanism, the
\* measured movement or time and speed, never by both: what a frame adds is
\* nothing, the movement alone or the time-based increment alone.
C32_OneDistanceMechanism ==
    \A d \in DistanceInputs(gc) : DistanceAdded(gc, d) \in {0, d[1], d[2]}

\* The base speed after the distance update of a frame that adds dT.
SpeedAfter(g, dT) == updateDistanceBasedOnTime(Entered(g), dT).baseSpeed

\* The distance update of a frame runs in g: the game is running, its start
\* time is set and 16 ms or more have passed since the last update.
DistanceUpdateRuns(g) ==
    g.isRunning /\ g.gameStartTime /\ now - g.lastDistanceUpdateTime >= 16

\* C33: the base speed never decreases, and it increases when the distance
\* update of a frame crosses a milestone: a multiple of 25 below distance
\* 200, a multiple of 100 from distance 200 on.
C33_SpeedFollowsMilestones ==
    DistanceUpdateRuns(gc)
    => \A dT \in {0, DistanceStep} :
          /\ SpeedAfter(gc, dT) >= gc.baseSpeed
          /\ (/\ gc.distanceTraveled + dT < 200
              /\ (gc.distanceTraveled + dT) \div 25 > gc.distanceTraveled \div 25)
             => SpeedAfter(gc, dT) > gc.baseSpeed
          /\ (/\ gc.distanceTraveled >= 200
              /\ (gc.distanceTraveled + dT) \div 100 > gc.distanceTraveled \div 100)
             => SpeedAfter(gc, dT) > gc.baseSpeed

\* client.js:3028-3035: the hunter limit of the spawn director and the
\* number of active hunter asteroids.
maxHunterCount(g) == Min(5, g.difficultyLevel \div 2 + 1)
hunterCount(g) ==
    Cardinality({i \in 1..Len(g.asteroids) : g.ast[g.asteroids[i]].isHunter})

\* C34: the number of active hunter asteroids never exceeds the hunter
\* limit min(5, floor(difficultyLevel / 2) + 1).
C34_HunterLimit == hunterCount(gc) <= maxHunterCount(gc)

C36_LossIsAnnounced ==
    [][\A c \in Clients :
          (/\ HandlesUpdate(c)
           /\ Head(toServer[c]).health <= 0
           /\ players[conn[c].playerId].health > 0)
          => \E i \in 1..Len(toClient'[c]) : toClient'[c][i].type = "gameLost"]_vars

\* C37: startServer tries the ports 3000, 3001, ... in increasing order,
\* listens on the first one found free and gives up without listening
\* after 10 ports in use; the loop ends: every iteration that stays in the
\* loop counts one attempt more, and there are never more than 10.
C37_PortSelection ==
    [][/\ startup'.attempts <= maxAttempts
       /\ startup'.port = initialPort + startup'.attempts
       /\ startup'.occupied = initialPort..(startup'.port - 1)
       /\ startup'.pc = "listening"
          => /\ startup'.listening = startup'.port
             /\ startup'.attempts < maxAttempts
       /\ startup'.pc = "gaveUp" => startup'.attempts = maxAttempts
       /\ startup'.pc # "listening" => startup'.listening = 0
       /\ (startup.pc = "probe" /\ startup'.pc = "probe" /\ startup' # startup)
          => startup'.attempts = startup.attempts + 1]_vars

\* The server listens on the tenth port after nine ports in use.
C37_Witness ==
    /\ startup.pc = "listening"
    /\ startup.attempts = maxAttempts - 1
    /\ startup.listening = initialPort + maxAttempts - 1

\* C38: the promise of killPreviousServerProcesses always resolves, also
\* when a kill fails: startServer is never left waiting for it after the
\* callback of every kill has run.
C38_KillPromiseResolves ==
    ~(startup.pc = "kill" /\ startup.pending = 0)

\* C39: no asteroid is in the free list more than once.
C39_FreeListHasNoDuplicates ==
    \A a \in AsteroidIds : Occurrences(gc.inactiveAsteroids, a) <= 1

\* Two asteroids have been released and wait in the free list while another
\* asteroid is active.
C39_Witness ==
    /\ Len(gc.inactiveAsteroids) >= 2
    /\ gc.asteroids # <<>>
    /\ gc.isRunning

====
